---- MODULE Spec2Model ----
(***************************************************************************)
(* Model of the request/response streaming layer of lm-webui               *)
(* (frontend/src/services/SSEService.ts): SSEStreamReader, SSEManager and  *)
(* the SSEService.streamChat facade.                                        *)
(* With it: the SSE frame codec, the StreamingService (WebSocket sessions, *)
(* reconnection, heartbeat, listeners), fetchModels of the model loader    *)
(* and the auth store with its response interceptor.                       *)
(*                                                                          *)
(* Text is modelled as a sequence of tokens.  A token is either NL (one    *)
(* "\n") or the name of one physical line of text.  Strings handed to the  *)
(* caller are sequences of atoms ("a", "b", ...); ObjStr is what JavaScript*)
(* produces when an object is appended to a string.                        *)
(*                                                                          *)
(* Platform: the WHATWG Streams standard.  getReader() on a locked body    *)
(* throws a TypeError; releaseLock() rejects the pending read() of the     *)
(* released reader with a TypeError and does not throw.                     *)
(*                                                                          *)
(* Scheduling: one step of the model is one job of the JavaScript event    *)
(* loop (the code that runs between two suspension points).                 *)
(***************************************************************************)
EXTENDS Integers, Sequences, FiniteSets, TLC

VARIABLES
  mode,          \* "reader": a caller drains its own SSEStreamReader; "facade": SSEService.streamChat;
                 \* "manager": two callers open a stream each with SSEService.createStream on one URL
                 \* "codec": the exported parseSSELine / createSSEEvent and the reader's parser, on one line
                 \* "ws": the StreamingService, its callers starting and stopping sessions
                 \* "reconnect": the StreamingService, its startSession calls one after
                 \*              the other and no session ever stopped
                 \* "dispatch": the StreamingService, its listeners and the messages it receives
                 \* "models": fetchModels, its callers and the answers to its requests
                 \* "auth": the auth store, its callers and the answers to its requests
  script,        \* script[r]: what the server sends on the body of response r (deliveries, then how it ends)
  bodyPos,       \* bodyPos[r]: number of deliveries of script[r] already read
  bodyErr,       \* bodyErr[r]: the body was errored by an abort of its fetch
  cbMaxRetries,  \* callbacks.maxRetries of the caller (DefaultMaxRetries when absent)
  now,           \* Date.now()
  aborted,       \* callbacks.signal.aborted
  sc,            \* the streamChat call: pc, attempt, firstError, outcome
  fetch,         \* fetch[r]: state of the fetch of attempt r
  listener,      \* listener[r]: callbacks.signal's abort listener of attempt r can still fire
  rd,            \* rd[r]: the fields of SSEStreamReader r and its running drains
  activeStreams, \* SSEManager.activeStreams: stream id -> reader (0: no entry)
  streamId,      \* streamId[r]: id under which reader r was registered (-1: never)
  autoDone,      \* autoDone[r]: the .finally() of the auto-cleanup drain of r has run
  chunkLog,      \* arguments of the onChunk calls, in call order
  statusLog,     \* arguments of the onStatus calls, in call order
  errLog,        \* arguments of the onError calls, in call order
  cancelCalls,   \* cancelCalls[r]: number of cancel() calls made on reader r
  gapRead,       \* the auto-cleanup drain has resumed once since createStream returned
  abortedAt,     \* history: the attempt streamChat was in when callbacks.signal was aborted (0: none)
  cancelledLive, \* history: cancelledLive[r]: cancel() hit reader r while its caller drained it
  silent,        \* silent[r]: Date.now() - lastEventTime of reader r exceeds its timeout
  wire,          \* "codec" mode: the line of text handed to a parser
  decoded,       \* "codec" mode: the parser that ran and the event it returned
  encoded,       \* "codec" mode: the frame createSSEEvent made of the decoded event
  svc,           \* "ws" mode: the fields of the StreamingService, its sockets and its timers
  starts,        \* "ws" mode: starts[c]: the position of the c-th startSession call
  stops,         \* "ws" mode: the position of the stopSession call, and the calls made so far
  hub,         \* "dispatch" mode: the listeners of the StreamingService and the callbacks the last message invoked
  models,      \* "models" mode: the caches of fetchModels, its fetches and its calls
  auth         \* "auth" mode: the requests of the auth store and what became of them

vars == <<mode, script, bodyPos, bodyErr, cbMaxRetries, now, aborted, sc, fetch,
          listener, rd, activeStreams, streamId, autoDone, chunkLog, statusLog,
          errLog, cancelCalls, gapRead, abortedAt, cancelledLive, silent,
          wire, decoded, encoded, svc, starts, stops, hub, models, auth>>

\* The variables of the components that came last.
otherVars == <<hub, models, auth>>

----------------------------------------------------------------------------
(* Bounds *)

MaxDeliveries == 2   \* deliveries on one body in reader mode
MaxNow == 1          \* Date.now() ranges over 0..MaxNow
MaxCancels == 2      \* cancel() calls in one run of reader mode
MaxFacadeCancels == 1  \* cancel() / cancelAll() calls in one run of the other modes
MaxBeats == 1        \* heartbeat callbacks that find the timeout exceeded
MaxSockets == 4      \* WebSocket objects of one StreamingService in one run of "reconnect" mode
MaxSessionSockets == 3  \* the same in one run of "ws" mode
MaxStarts == 2       \* startSession calls in one run
MaxStops == 1        \* stopSession / cancelSession calls in one run of "ws" mode
MaxRegistrations == 3   \* callbacks registered with on() at one time
MaxFetchCalls == 3   \* fetchModels calls in one run
MaxRequests == 4     \* requests made through authAxios in one run

(* Program constants *)

DefaultMaxRetries == 3

\* Reader 1 belongs to the first attempt of streamChat, reader 2 to its retry.
Readers == {1, 2}
Drains == {"auto", "caller"}
Ids == 0..MaxNow

----------------------------------------------------------------------------
(* Text *)

NL == "\n"

\* One line of text each.  Their meaning is given by JSONParse below.
\*   Ca   data: {"type":"chunk","data":{"content":"a"}}
\*   Cb   data: {"type":"chunk","data":{"content":"b"}}
\*   C0   data: {"type":"chunk","data":{"content":""}}
\*   Sm   data: {"type":"status","data":{"message":"m"}}
\*   Ex   data: {"type":"error","data":{"message":"x"}}
\*   K    data: {"type":"complete","data":{}}
\*   Md   data: {"type":"metadata","data":{"step":1}}
\*   Raw  data: hello
DataLines == {"Ca", "Cb", "C0", "Sm", "Ex", "K", "Md", "Raw"}

\* The line Ca cut in two pieces of text:
\*   CaL  data: {"type":"chu
\*   CaR  nk","data":{"content":"a"}}
\* CaL alone is a line with the "data: " prefix and a payload that is not JSON.
PrefixedLines == DataLines \cup {"CaL"}

\* String concatenation: the two pieces of Ca that meet make the line Ca.
RECURSIVE Join(_)
Join(t) ==
  IF Len(t) < 2 THEN t
  ELSE IF t[1] = "CaL" /\ t[2] = "CaR" THEN <<"Ca">> \o Join(SubSeq(t, 3, Len(t)))
  ELSE <<t[1]>> \o Join(Tail(t))

ObjStr == <<"[object Object]">>

\* The text after the "data: " prefix of a line, as atoms.
Payload ==
  [l \in PrefixedLines |->
     CASE l = "Raw" -> <<"hello">>
       [] OTHER     -> <<"json:", l>>]

\* JSON.parse of a payload: ok = FALSE when it throws.
JSONParse ==
  [l \in PrefixedLines |->
     CASE l = "Ca"  -> [ok |-> TRUE, type |-> "chunk", hasContent |-> TRUE, content |-> <<"a">>, hasMessage |-> FALSE, message |-> <<>>]
       [] l = "Cb"  -> [ok |-> TRUE, type |-> "chunk", hasContent |-> TRUE, content |-> <<"b">>, hasMessage |-> FALSE, message |-> <<>>]
       [] l = "C0"  -> [ok |-> TRUE, type |-> "chunk", hasContent |-> TRUE, content |-> <<>>, hasMessage |-> FALSE, message |-> <<>>]
       [] l = "Sm"  -> [ok |-> TRUE, type |-> "status", hasContent |-> FALSE, content |-> <<>>, hasMessage |-> TRUE, message |-> <<"m">>]
       [] l = "Ex"  -> [ok |-> TRUE, type |-> "error", hasContent |-> FALSE, content |-> <<>>, hasMessage |-> TRUE, message |-> <<"x">>]
       [] l = "K"   -> [ok |-> TRUE, type |-> "complete", hasContent |-> FALSE, content |-> <<>>, hasMessage |-> FALSE, message |-> <<>>]
       [] l = "Md"  -> [ok |-> TRUE, type |-> "metadata", hasContent |-> FALSE, content |-> <<>>, hasMessage |-> FALSE, message |-> <<>>]
       [] OTHER     -> [ok |-> FALSE, type |-> "", hasContent |-> FALSE, content |-> <<>>, hasMessage |-> FALSE, message |-> <<>>]]

\* An SSEEvent: its type, and of event.data the fields the drain reads.
\* synthetic marks the event readEvents makes up when the body ends.
Event(type, hasContent, content, hasMessage, message, synthetic) ==
  [type |-> type, hasContent |-> hasContent, content |-> content,
   hasMessage |-> hasMessage, message |-> message, synthetic |-> synthetic]

RawChunk(text) == Event("chunk", TRUE, text, FALSE, <<>>, FALSE)

CompleteEvent == Event("complete", FALSE, <<>>, TRUE, <<"Stream completed">>, TRUE)

\* String.prototype.trim on a token sequence: NL is the only white space.
RECURSIVE TrimLeft(_)
TrimLeft(t) == IF t # <<>> /\ Head(t) = NL THEN TrimLeft(Tail(t)) ELSE t

RECURSIVE TrimRight(_)
TrimRight(t) ==
  IF t # <<>> /\ t[Len(t)] = NL THEN TrimRight(SubSeq(t, 1, Len(t) - 1)) ELSE t

Trim(t) == TrimRight(TrimLeft(t))

\* String.prototype.split("\n\n"): the pieces between the non-overlapping
\* occurrences of two NL, scanned from the left.
RECURSIVE SplitFrom(_, _)
SplitFrom(t, cur) ==
  IF t = <<>> THEN <<cur>>
  ELSE IF Len(t) >= 2 /\ t[1] = NL /\ t[2] = NL
       THEN <<cur>> \o SplitFrom(SubSeq(t, 3, Len(t)), <<>>)
       ELSE SplitFrom(Tail(t), Append(cur, Head(t)))

Split(t) == SplitFrom(t, <<>>)

\* The text of a trimmed piece after its first six characters ("data: ").
AfterPrefix(line) == Payload[Head(line)] \o Tail(line)

\* A parser that would hand on the whole line, prefix included, when the
\* payload is not JSON.  It is not the program's: C18 (as amended) is shown
\* to depend on the prefix being cut off.
ParseSSELineWholeLine(line) ==
  IF Head(line) \in PrefixedLines /\ Len(line) = 1 /\ JSONParse[Head(line)].ok
  THEN LET j == JSONParse[Head(line)]
       IN Event(j.type, j.hasContent, j.content, j.hasMessage, j.message, FALSE)
  ELSE RawChunk(line)

\* SSEStreamReader.parseSSELine on a trimmed, non-empty piece.
ParseSSELine(line) ==
  IF Head(line) \in PrefixedLines
  THEN IF Len(line) = 1 /\ JSONParse[Head(line)].ok
       THEN LET j == JSONParse[Head(line)]
            IN Event(j.type, j.hasContent, j.content, j.hasMessage, j.message, FALSE)
       ELSE RawChunk(AfterPrefix(line))
  ELSE RawChunk(line)

RECURSIVE ParsePieces(_)
ParsePieces(pieces) ==
  IF pieces = <<>> THEN <<>>
  ELSE LET trimmed == Trim(Head(pieces))
       IN (IF trimmed = <<>> THEN <<>> ELSE <<ParseSSELine(trimmed)>>)
          \o ParsePieces(Tail(pieces))

\* SSEStreamReader.parseBuffer: the events of the complete pieces, and the
\* last piece, which stays in the buffer.
ParseBuffer(buffer) ==
  LET lines == Split(buffer)
  IN [events |-> ParsePieces(SubSeq(lines, 1, Len(lines) - 1)),
      buffer |-> lines[Len(lines)]]

----------------------------------------------------------------------------
(* The frame codec on JSON values *)

\* A JavaScript value is a record whose field js names its kind.
Undefined == [js |-> "undefined"]
Null == [js |-> "null"]
False == [js |-> "false"]
Zero == [js |-> "number", v |-> "0"]
Str(chars) == [js |-> "string", v |-> chars]
EmptyObject == [js |-> "object"]

\* { content: text }
Content(text) == [js |-> "object", content |-> text]

\* The operands that JavaScript's || passes over.
Falsy(x) == x \in {Undefined, Null, False, Zero, Str("")}

\* x || y
Or(x, y) == IF Falsy(x) THEN y ELSE x

SSEEventTypes == {"chunk", "status", "error", "complete", "metadata"}

\* new Date().toISOString() at time t
ISO(t) == [js |-> "string", iso |-> t]

\* The object { type, data, id, timestamp }; an absent field is Undefined.
Tagged(type, data, id, timestamp) ==
  [js |-> "object", type |-> type, data |-> data, id |-> id, timestamp |-> timestamp]

Objects ==
  {Tagged(type, data, id, timestamp) :
     type \in {Str(t) : t \in SSEEventTypes} \cup {Undefined},
     data \in {Undefined, Null, False, Zero, Str(""), EmptyObject, Content("Hello")},
     id \in {Undefined, Str("e1")},
     timestamp \in {Undefined} \cup {ISO(t) : t \in Ids}}

\* JSON.stringify of an object: a field that is undefined is left out, which
\* is how Tagged writes an absent field.
JSONStringify(obj) == [text |-> "json", of |-> obj]

\* Text that is not JSON.
Plain(chars) == [text |-> "plain", v |-> chars]

\* JSON.parse: ok = FALSE when it throws.
JSONParseText(text) ==
  IF text.text = "json" THEN [ok |-> TRUE, value |-> text.of]
  ELSE [ok |-> FALSE, value |-> Undefined]

\* A trimmed line of text: the "data: " prefix or none, and the text after it.
DataLine(payload) == [prefix |-> TRUE, payload |-> payload]
BareLine(chars) == [prefix |-> FALSE, payload |-> Plain(chars)]
EmptyLine == BareLine("")

WireLines ==
  {DataLine(JSONStringify(obj)) : obj \in Objects}
    \cup {DataLine(Plain("Hello World")), BareLine("Hello World"), EmptyLine}

\* An SSEEvent with all its fields.
SSEEvent(type, data, id, timestamp) ==
  [type |-> type, data |-> data, id |-> id, timestamp |-> timestamp]

\* The exported parseSSELine, called at time t.
parseSSELine(l, t) ==
  IF l = EmptyLine THEN Null
  ELSE IF l.prefix
  THEN LET parsed == JSONParseText(l.payload)
           data == parsed.value
       IN IF parsed.ok
          THEN SSEEvent(Or(data.type, Str("chunk")), Or(data.data, data), Undefined, ISO(t))
          ELSE SSEEvent(Str("chunk"), Content(l.payload.v), Undefined, ISO(t))
  ELSE SSEEvent(Str("chunk"), Content(l.payload.v), Undefined, ISO(t))

\* SSEStreamReader.parseSSELine with every field of the event it returns,
\* called at time t on a line that parseBuffer trimmed and found non-empty.
ParseSSELineFields(l, t) ==
  IF l.prefix
  THEN LET parsed == JSONParseText(l.payload)
           data == parsed.value
       IN IF parsed.ok
          THEN SSEEvent(Or(data.type, Str("chunk")), Or(data.data, data), data.id,
                        Or(data.timestamp, ISO(t)))
          ELSE SSEEvent(Str("chunk"), Content(l.payload.v), Undefined, ISO(t))
  ELSE SSEEvent(Str("chunk"), Content(l.payload.v), Undefined, ISO(t))

\* createSSEEvent
createSSEEvent(e) ==
  [line |-> DataLine(JSONStringify(Tagged(e.type, e.data, e.id, e.timestamp))),
   delimiter |-> <<NL, NL>>]

NotDecoded == [by |-> "none", event |-> Null]
NotEncoded == [line |-> EmptyLine, delimiter |-> <<>>]

----------------------------------------------------------------------------
(* Errors *)

NoError == [type |-> "none", recoverable |-> FALSE, origin |-> 0]

\* new StreamError(message, type, recoverable); origin is the attempt that
\* constructed the object (two errors of different attempts are different
\* objects even when their fields agree).
StreamError(type, recoverable, origin) ==
  [type |-> type, recoverable |-> recoverable, origin |-> origin]

----------------------------------------------------------------------------
(* SSEStreamReader *)

NoDrain == [pc |-> "idle", batch |-> <<>>, eof |-> FALSE, full |-> <<>>,
            err |-> NoError, yielded |-> <<>>]

\* new SSEStreamReader(response, options)
NewReader(maxRetries) ==
  [created |-> TRUE, reader |-> FALSE, heartbeatInterval |-> FALSE, timers |-> 0,
   isCancelled |-> FALSE, buffer |-> <<>>, retryCount |-> 0,
   maxRetries |-> maxRetries, dr |-> [d \in Drains |-> NoDrain]]

NoReader == [NewReader(0) EXCEPT !.created = FALSE]

\* StreamErrorType
StreamErrorTypes ==
  {"NETWORK", "TIMEOUT", "SERVER", "PARSE", "CANCELLED", "MAX_RETRIES_EXCEEDED"}

\* Exceptions of the platform, which are no StreamError: the TypeError of
\* getReader() on a locked body, of a rejected read() and of a failed fetch,
\* and the DOMException named AbortError of an aborted fetch.  Their
\* recoverable property is undefined, which a condition reads as false.
TypeError(r) == [type |-> "TypeError", recoverable |-> FALSE, origin |-> r]
DOMAbortError(r) == [type |-> "AbortError", recoverable |-> FALSE, origin |-> r]

\* error instanceof StreamError
IsStreamError(error) == error.type \in StreamErrorTypes

\* A catch block that would rethrow whatever it caught.  It is not the
\* program's: C23 is shown to depend on the reclassification.
ReadEventsCatchRethrowing(s, r, error) == error

\* The catch block of readEvents.
ReadEventsCatch(s, r, error) ==
  IF IsStreamError(error) THEN error
  ELSE StreamError("NETWORK", s.retryCount < s.maxRetries, r)

\* The error readEvents makes of an exception that is no StreamError.
NetworkError(s, r) == ReadEventsCatch(s, r, TypeError(r))

CancelledError(r) == StreamError("CANCELLED", FALSE, r)

\* ReadableStreamDefaultReader.releaseLock(): the read() that is pending on
\* the released reader is rejected.
ReleaseLock(drains) ==
  [d \in Drains |->
     IF drains[d].pc = "read" THEN [drains[d] EXCEPT !.pc = "rejected"] ELSE drains[d]]

StartHeartbeat(s) == [s EXCEPT !.heartbeatInterval = TRUE, !.timers = @ + 1]

\* A cleanup that would clear the heartbeat but keep the lock on the body.
\* It is not the program's cleanup: C6 is shown to depend on the release.
CleanupKeepingLock(s) ==
  [s EXCEPT !.timers = IF s.heartbeatInterval THEN @ - 1 ELSE @,
            !.heartbeatInterval = FALSE]

Cleanup(s) ==
  [s EXCEPT !.timers = IF s.heartbeatInterval THEN @ - 1 ELSE @,
            !.heartbeatInterval = FALSE,
            !.dr = IF s.reader THEN ReleaseLock(@) ELSE @,
            !.reader = FALSE]

\* An exception leaves readEvents of drain d: the finally block runs, the
\* drain's readToCompletion rejects with err.
Throw(s, d, err) ==
  [Cleanup(s) EXCEPT !.dr[d].pc = "failed", !.dr[d].err = err, !.dr[d].batch = <<>>]

\* readEvents returns after the break: the finally block runs, the drain's
\* readToCompletion returns fullResponse.
Return(s, d) == [Cleanup(s) EXCEPT !.dr[d].pc = "done", !.dr[d].batch = <<>>]

\* The head of the while loop of readEvents, up to the await of read().
LoopTop(s, r, d) ==
  IF s.isCancelled THEN Throw(s, d, CancelledError(r))
  ELSE IF ~s.reader THEN Throw(s, d, NetworkError(s, r))
  ELSE [s EXCEPT !.dr[d].pc = "read"]

\* readToCompletion is called: readEvents runs from its start to its first
\* await.  The body is locked exactly when the reader field is set.
ReadEventsStart(s, r, d) ==
  IF s.reader
  THEN Throw(s, d, NetworkError(s, r))
  ELSE LoopTop(StartHeartbeat([s EXCEPT !.reader = TRUE]), r, d)

\* A delivery handler that would parse each delivery on its own, without
\* the text left over from the deliveries before.  It is not the program's:
\* C17 is shown to depend on the buffer.
OnDeliveryWithoutBuffer(s, r, d, text) ==
  LET parsed == ParseBuffer(Join(text))
      t == [s EXCEPT !.buffer = parsed.buffer]
  IN IF parsed.events = <<>>
     THEN LoopTop(t, r, d)
     ELSE [t EXCEPT !.dr[d].pc = "yield", !.dr[d].batch = parsed.events]

\* The await of read() resumes with a delivery.
OnDelivery(s, r, d, text) ==
  LET parsed == ParseBuffer(Join(s.buffer \o text))
      t == [s EXCEPT !.buffer = parsed.buffer]
  IN IF parsed.events = <<>>
     THEN LoopTop(t, r, d)
     ELSE [t EXCEPT !.dr[d].pc = "yield", !.dr[d].batch = parsed.events]

\* The await of read() resumes with done.
OnDone(s, d) ==
  [s EXCEPT !.dr[d].pc = "yield", !.dr[d].batch = <<CompleteEvent>>, !.dr[d].eof = TRUE]

\* event.data.content || event.data
ChunkContent(e) == IF e.hasContent /\ e.content # <<>> THEN e.content ELSE ObjStr

\* event.data.message || event.data
StatusMessage(e) == IF e.hasMessage /\ e.message # <<>> THEN e.message ELSE ObjStr

\* What readEvents does when the consumer asks for the event after e.
AfterEvent(s, r, d) ==
  IF Len(s.dr[d].batch) > 1 THEN [s EXCEPT !.dr[d].batch = Tail(@)]
  ELSE IF s.dr[d].eof THEN Return(s, d)
  ELSE LoopTop([s EXCEPT !.dr[d].batch = <<>>], r, d)

\* A loop that would pass over an error event as over a complete event.  It
\* is not the program's: C22 is shown to depend on the throw.
ConsumeWithoutThrow(s, r, d, e) ==
  LET t == [s EXCEPT !.dr[d].yielded = Append(@, e.type)]
  IN IF e.type = "chunk"
     THEN AfterEvent([t EXCEPT !.dr[d].full = @ \o ChunkContent(e)], r, d)
     ELSE AfterEvent(t, r, d)

\* One turn of the for-await loop of readToCompletion on event e.
Consume(s, r, d, e) ==
  LET t == [s EXCEPT !.dr[d].yielded = Append(@, e.type)]
  IN CASE e.type = "chunk" ->
            AfterEvent([t EXCEPT !.dr[d].full = @ \o ChunkContent(e)], r, d)
       [] e.type = "error" -> Throw(t, d, StreamError("SERVER", FALSE, r))
       [] OTHER -> AfterEvent(t, r, d)

\* SSEStreamReader.cancel() without its onError call.
CancelReader(s) == Cleanup([s EXCEPT !.isCancelled = TRUE])

----------------------------------------------------------------------------
(* What the server sends *)

\* One delivery is the text of one resolved read(); here, one whole frame.
Deliveries == {<<l, NL, NL>> : l \in DataLines}

\* Texts of complete frames that the network cuts into deliveries anywhere:
\* inside a line, between a line and its delimiter, inside the delimiter.
\* The second has a frame with a malformed payload between two valid frames.
SplitTexts ==
  {<<"CaL", "CaR", NL, NL, "Sm", NL, NL>>,
   <<"Ca", NL, NL, "CaL", NL, NL, "Cb", NL, NL>>}

\* The ways of cutting text t into at most n deliveries, none of them empty.
RECURSIVE Cuts(_, _)
Cuts(t, n) ==
  IF n <= 1 \/ Len(t) <= 1 THEN {<<t>>}
  ELSE {<<t>>} \cup
       UNION {{<<SubSeq(t, 1, k)>> \o rest : rest \in Cuts(SubSeq(t, k + 1, Len(t)), n - 1)} :
              k \in 1..(Len(t) - 1)}

\* Bodies whose last line has no delimiter.
Unterminated == {<< <<"Cb">> >>, << <<"Ca", NL, NL>>, <<"Cb">> >>}

RECURSIVE SeqsUpTo(_, _)
SeqsUpTo(S, n) ==
  IF n = 0 THEN {<<>>}
  ELSE LET shorter == SeqsUpTo(S, n - 1)
       IN shorter \cup {Append(q, x) : q \in {p \in shorter : Len(p) = n - 1}, x \in S}

\* end: "close" (the body ends) or "error" (the connection breaks).
ReaderScripts ==
  [dl : SeqsUpTo(Deliveries, MaxDeliveries)
        \cup UNION {Cuts(t, MaxDeliveries) : t \in SplitTexts}
        \cup Unterminated
        \cup {<< <<"Ca", NL, NL, "K", NL, NL>>, <<"Cb", NL, NL>> >>,
              << <<"Sm", NL, NL, "Ex", NL, NL, "Ca", NL, NL>> >>},
   end : {"close", "error"}]

FacadeScripts ==
  {[dl |-> <<>>, end |-> "close"],
   [dl |-> << <<"Ca", NL, NL, "K", NL, NL>>, <<"Cb", NL, NL>> >>, end |-> "close"],
   [dl |-> << <<"Ca", NL, NL>> >>, end |-> "error"]}

NoScript == [dl |-> <<>>, end |-> "close"]

Statuses == {200, 204, 401, 403, 404, 500}

\* Response.ok
ResponseOk(status) == status >= 200 /\ status <= 299

----------------------------------------------------------------------------
(* SSEManager.createStream and SSEService.streamChat *)

Pending == [kind |-> "pending", value |-> <<>>, err |-> NoError]
Resolved(v) == [kind |-> "resolved", value |-> v, err |-> NoError]
Rejected(e) == [kind |-> "rejected", value |-> <<>>, err |-> e]

\* A classification that would call every failure status recoverable.  It is
\* not the program's: C21 is shown to depend on the 401 / 403 exception.
HttpErrorAlwaysRecoverable(status, r) ==
  StreamError(IF status >= 500 THEN "SERVER" ELSE "NETWORK", TRUE, r)

\* The error createStream throws for a response that is not ok.
HttpError(status, r) ==
  StreamError(IF status >= 500 THEN "SERVER" ELSE "NETWORK",
              status # 401 /\ status # 403, r)

\* The catch block of createStream.
CreateStreamCatch(error, r) ==
  IF error.type = "AbortError" THEN StreamError("TIMEOUT", TRUE, r)
  ELSE IF IsStreamError(error) THEN error
  ELSE StreamError("NETWORK", TRUE, r)

\* The error createStream throws when its fetch is aborted.
AbortError(r) == CreateStreamCatch(DOMAbortError(r), r)

\* The error createStream throws when its fetch fails.
FetchError(r) == CreateStreamCatch(TypeError(r), r)

\* A condition that would retry on every error but CANCELLED.  It is not the
\* program's condition: C4 is shown to depend on the recoverable flag.
RetryConditionIgnoringRecoverable(err) == err.type # "CANCELLED"

\* The condition under which streamChat retries.
RetryCondition(err) == err.recoverable /\ err.type # "CANCELLED"

\* maxRetries of the options of the retry.
RetryMaxRetries == 0

\* What streamChat throws when the retry failed with retryError.
Surfaced(error, retryError) == error

\* this.maxRetries of the reader of attempt r.
ReaderMaxRetries(r) == IF r = 1 THEN cbMaxRetries ELSE RetryMaxRetries

\* The catch block of streamChat on err, thrown by the current attempt; ab is
\* signal.aborted at that moment.  A retry runs createStream to its fetch.
FacadeCatch(err, ab, f, l) ==
  IF sc.attempt = 1
  THEN IF RetryCondition(err)
       THEN [sc |-> [sc EXCEPT !.pc = "fetch", !.attempt = 2, !.firstError = err],
             fetch |-> [f EXCEPT ![2] = "pending"],
             listener |-> [l EXCEPT ![2] = ~ab]]
       ELSE [sc |-> [sc EXCEPT !.pc = "done", !.firstError = err, !.outcome = Rejected(err)],
             fetch |-> f, listener |-> l]
  ELSE [sc |-> [sc EXCEPT !.pc = "done", !.outcome = Rejected(Surfaced(sc.firstError, err))],
        fetch |-> f, listener |-> l]

\* createStream returned reader r and streamChat has not resumed yet.
InGap(r) == mode = "facade" /\ sc.pc = "gap" /\ sc.attempt = r

TotalCancels == cancelCalls[1] + cancelCalls[2]

\* The run may go on with one more call of cancel() or cancelAll().
MayCancel ==
  TotalCancels < (IF mode = "reader" THEN MaxCancels ELSE MaxFacadeCancels)

\* streamChat is waiting for the response or reading the body.
InFlight == mode = "facade" /\ sc.pc \in {"fetch", "gap", "drain"}

\* The caller is draining reader r: it holds r and its readToCompletion on
\* r has not ended.  The caller is streamChat, or in reader mode the code
\* that awaits readToCompletion as streamChat does.
Draining(r) ==
  /\ sc.attempt = r
  /\ \/ mode = "facade" /\ sc.pc \in {"gap", "drain"}
     \/ mode = "reader" /\ sc.pc = "drain" /\ r = 1
  /\ rd[r].dr["caller"].pc \in {"idle", "read", "rejected", "yield"}

----------------------------------------------------------------------------
(* StreamingService: values *)

\* maxReconnectAttempts
MaxReconnectAttempts == 3

Sockets == 1..MaxSockets
StartCalls == 1..MaxStarts

\* Close codes: normal closure, no status received (close() without a code),
\* abnormal closure (the connection failed or broke).
NormalClosure == 1000
NoStatus == 1005
AbnormalClosure == 1006

\* What authFetch rejects with; startSession passes it on as it is.
AuthFetchError ==
  [kind |-> "Error", message |-> "authFetch", type |-> "undefined", recoverable |-> "undefined"]

\* What is thrown and what promises are rejected with.  None of these
\* objects has a type from StreamErrorType or a recoverable property.
\* ErrorEvent is the Event object that onerror passes to reject.
NoWsError == [kind |-> "none", message |-> "", type |-> "undefined", recoverable |-> "undefined"]
PlainError(message) ==
  [kind |-> "Error", message |-> message, type |-> "undefined", recoverable |-> "undefined"]
ErrorEvent == [kind |-> "Event", message |-> "undefined", type |-> "error", recoverable |-> "undefined"]

\* A WebSocket object of the service.
\*   readyState  "none" (not created), "CONNECTING", "OPEN", "CLOSING", "CLOSED"
\*   closeCode   the code its close event will carry, once the close began
\*   failing     the connection failed: an error event comes with the close event
\*   timeout     the connection timer of the connectWebSocket call that made it
\*   promise     the promise of that call, and reason, what it was rejected with
\*   byClient    disconnect() called close(1000) on it
\* Of a socket that is closed only readyState, timeout and promise are kept.
NoSocket ==
  [readyState |-> "none", closeCode |-> 0, failing |-> FALSE, timeout |-> "none",
   promise |-> "none", reason |-> NoWsError, byClient |-> FALSE]

\* new StreamingService(); websocket = 0 and sessionId = 0 stand for null.
\*   intervals   the setInterval timers of startHeartbeat that are armed
\*   reconnects  the pending timers of handleReconnect
\*   emitted     the events emitted since the last step began
\*   sent        the messages written to sockets since the last step began
\*   thrown      what sendMessage threw in the last step
NewService ==
  [websocket |-> 0, sessionId |-> 0, reconnectAttempts |-> 0, heartbeatInterval |-> FALSE,
   intervals |-> 0, isConnecting |-> FALSE, sock |-> [k \in Sockets |-> NoSocket],
   reconnects |-> <<>>, emitted |-> <<>>, sent |-> <<>>, thrown |-> NoWsError]

\* A startSession call: "idle", "handshake" (awaiting authFetch), "connect"
\* (awaiting connectWebSocket on socket sock), "resolved", "rejected" with err.
NoCall == [pc |-> "idle", sock |-> 0, err |-> NoWsError]

\* The stopSession call: "idle", "rest" (awaiting authFetch), "done"; calls
\* counts the stopSession and cancelSession calls made, and ended holds the
\* sessions whose id such a call has cleared.
NoStop == [pc |-> "idle", calls |-> 0, ended |-> {}]

----------------------------------------------------------------------------
(* StreamingService: methods and handlers, as functions of the service *)

\* The step begins: nothing emitted, sent or thrown yet.
Fresh(s) == [s EXCEPT !.emitted = <<>>, !.sent = <<>>, !.thrown = NoWsError]

\* WebSocket.send on socket k, which is not connecting: the message is
\* written when the socket is open and dropped when it is closing or closed.
Send(s, k, action) ==
  IF s.sock[k].readyState = "OPEN"
  THEN [s EXCEPT !.sent = Append(@, [sock |-> k, action |-> action])]
  ELSE s

\* StreamingService.sendMessage
SendMessage(s) ==
  IF s.websocket = 0 \/ s.sock[s.websocket].readyState # "OPEN"
  THEN [s EXCEPT !.thrown = PlainError("WebSocket not connected")]
  ELSE Send(s, s.websocket, "message")

\* The callback of a timer of startHeartbeat.
OnHeartbeat(s) ==
  IF s.websocket # 0 /\ s.sock[s.websocket].readyState = "OPEN"
  THEN Send(s, s.websocket, "heartbeat")
  ELSE s

\* StreamingService.emitEvent; error is what an error event carries.
EmitEvent(s, type, error) ==
  [s EXCEPT !.emitted = Append(@, [type |-> type, error |-> error])]

\* StreamingService.startHeartbeat: the handle of the new timer replaces
\* the old one in the field.
WsStartHeartbeat(s) == [s EXCEPT !.heartbeatInterval = TRUE, !.intervals = @ + 1]

\* StreamingService.stopHeartbeat
WsStopHeartbeat(s) ==
  IF s.heartbeatInterval
  THEN [s EXCEPT !.heartbeatInterval = FALSE, !.intervals = @ - 1]
  ELSE s

\* WebSocket.close(code) on socket k; code = NoStatus when none is given.
\* Closing a socket that is connecting fails its connection.
CloseSocket(s, k, code) ==
  CASE s.sock[k].readyState = "CONNECTING" ->
         [s EXCEPT !.sock[k].readyState = "CLOSING", !.sock[k].failing = TRUE,
                   !.sock[k].closeCode = AbnormalClosure]
    [] s.sock[k].readyState = "OPEN" ->
         [s EXCEPT !.sock[k].readyState = "CLOSING", !.sock[k].closeCode = code]
    [] OTHER -> s

\* StreamingService.disconnect
Disconnect(s) ==
  LET t == WsStopHeartbeat(s)
      u == IF t.websocket # 0
           THEN [CloseSocket(t, t.websocket, NormalClosure)
                   EXCEPT !.sock[t.websocket].byClient = TRUE]
           ELSE t
  IN [u EXCEPT !.websocket = 0, !.sessionId = 0]

RECURSIVE Pow2(_)
Pow2(n) == IF n = 0 THEN 1 ELSE 2 * Pow2(n - 1)

\* A delay that would double without the cap.  It is not the program's:
\* C27 is shown to depend on the cap.
DelayWithoutCap(n) == 1000 * Pow2(n)

\* The delay of handleReconnect when reconnectAttempts is n.
Delay(n) == IF 1000 * Pow2(n) < 30000 THEN 1000 * Pow2(n) ELSE 30000

\* StreamingService.handleReconnect, up to the setTimeout.
HandleReconnect(s) ==
  IF s.reconnectAttempts < MaxReconnectAttempts
  THEN LET n == s.reconnectAttempts + 1
       IN [s EXCEPT !.reconnectAttempts = n,
                    !.reconnects = Append(@, [attempt |-> n, delay |-> Delay(n),
                                              session |-> s.sessionId])]
  ELSE s

\* reject(reason) on the promise of the connectWebSocket call of socket k.
Reject(s, k, reason) ==
  IF s.sock[k].promise = "pending"
  THEN [s EXCEPT !.sock[k].promise = "rejected", !.sock[k].reason = reason]
  ELSE s

\* websocket.onopen of socket k.  send() on this.websocket throws when that
\* socket is still connecting; the handler then ends before it resolves.
OnOpen(s, k) ==
  LET t == WsStartHeartbeat([s EXCEPT !.sock[k].readyState = "OPEN",
                                      !.isConnecting = FALSE, !.reconnectAttempts = 0])
  IN IF t.sessionId # 0
        /\ (t.websocket = 0 \/ t.sock[t.websocket].readyState = "CONNECTING")
     THEN t
     ELSE LET u == EmitEvent(IF t.sessionId # 0 THEN Send(t, t.websocket, "start_stream")
                                                ELSE t,
                             "connected", NoWsError)
          IN IF u.sock[k].promise = "pending"
             THEN [u EXCEPT !.sock[k].promise = "resolved"] ELSE u

\* websocket.onerror of socket k.
OnError(s, k) ==
  Reject(EmitEvent([s EXCEPT !.isConnecting = FALSE], "error", ErrorEvent), k, ErrorEvent)

\* websocket.onclose of socket k, with the code of the close event.
OnClose(s, k, code) ==
  LET t == WsStopHeartbeat([s EXCEPT !.sock[k].readyState = "CLOSED",
                                     !.sock[k].closeCode = code, !.isConnecting = FALSE])
      u == IF code # NormalClosure THEN HandleReconnect(t) ELSE t
  IN EmitEvent(u, "disconnected", NoWsError)

\* The connection of socket k is closed: the error event when the
\* connection failed, then the close event.
CloseEvents(s, k, code) ==
  IF s.sock[k].failing THEN OnClose(OnError(s, k), k, code) ELSE OnClose(s, k, code)

\* The first socket not created yet (0: none left).
NextSocket(s) ==
  IF \E k \in Sockets : s.sock[k].readyState = "none"
  THEN CHOOSE k \in Sockets : /\ s.sock[k].readyState = "none"
                              /\ \A j \in 1..(k - 1) : s.sock[j].readyState # "none"
  ELSE 0

\* StreamingService.connectWebSocket, up to the return of its promise;
\* k is the WebSocket it creates.
ConnectWebSocket(s, k) ==
  [s EXCEPT !.isConnecting = TRUE, !.websocket = k,
            !.sock[k] = [NoSocket EXCEPT !.readyState = "CONNECTING", !.timeout = "armed",
                                         !.promise = "pending"]]

\* The timer of the connectWebSocket call of socket k fires.
OnConnectTimeout(s, k) ==
  LET t == [s EXCEPT !.sock[k].timeout = "fired"]
  IN IF t.isConnecting
     THEN Reject(IF t.websocket # 0 THEN CloseSocket(t, t.websocket, NoStatus) ELSE t,
                 k, PlainError("WebSocket connection timeout"))
     ELSE t

\* The step is over: what nothing reads any more is dropped from the record
\* of a closed socket and of a settled promise.
Tidy(s) ==
  [s EXCEPT !.sock = [k \in Sockets |->
     LET x == [@[k] EXCEPT !.reason = NoWsError]
     IN IF x.readyState = "CLOSED"
        THEN [x EXCEPT !.closeCode = 0, !.failing = FALSE, !.byClient = FALSE]
        ELSE x]]

\* The startSession calls that await a promise which the step settled go on.
Resume(calls, s) ==
  [c \in StartCalls |->
     IF calls[c].pc # "connect" THEN calls[c]
     ELSE CASE s.sock[calls[c].sock].promise = "resolved" -> [calls[c] EXCEPT !.pc = "resolved"]
            [] s.sock[calls[c].sock].promise = "rejected" ->
                 [calls[c] EXCEPT !.pc = "rejected", !.err = s.sock[calls[c].sock].reason]
            [] OTHER -> calls[c]]

----------------------------------------------------------------------------
(* StreamingService: listeners and the dispatch of messages *)

Listeners == {1, 2}

\* What a callback does when it is called: nothing to the service, or
\* off(event, itself) for the event it is called with.
Behaviours == {"plain", "once"}

KnownTypes == {"reasoning_step", "final_answer", "cancelled", "error"}
EventNames == {"message"} \cup KnownTypes

\* The types of the messages a server sends: the known ones and two others.
MessageTypes == KnownTypes \cup {"message", "token"}

\* eventListeners of a new service, and the callbacks the last step invoked.
NewHub ==
  [behaviour |-> [l \in Listeners |-> "plain"],
   eventListeners |-> [e \in EventNames |-> <<>>],
   calls |-> <<>>, handled |-> "none"]

\* Array.indexOf, counted from 1 (0: absent), and Array.splice(index, 1).
IndexOf(arr, l) ==
  IF \E i \in 1..Len(arr) : arr[i] = l
  THEN CHOOSE i \in 1..Len(arr) : arr[i] = l /\ \A j \in 1..(i - 1) : arr[j] # l
  ELSE 0

Splice(arr, i) == SubSeq(arr, 1, i - 1) \o SubSeq(arr, i + 1, Len(arr))

\* StreamingService.on
On(h, e, l) == [h EXCEPT !.eventListeners[e] = Append(@, l)]

\* StreamingService.off with a callback, and without one
Off(h, e, l) ==
  IF IndexOf(h.eventListeners[e], l) > 0
  THEN [h EXCEPT !.eventListeners[e] = Splice(@, IndexOf(@, l))]
  ELSE h

OffAll(h, e) == [h EXCEPT !.eventListeners[e] = <<>>]

\* Array.forEach on the array of event e, from index k; len is the length
\* the array had when forEach began.  An index the array has no more is
\* skipped; what a callback throws is caught.
RECURSIVE ForEach(_, _, _, _)
ForEach(h, e, k, len) ==
  IF k > len \/ k > Len(h.eventListeners[e])
  THEN h
  ELSE LET l == h.eventListeners[e][k]
           called == [h EXCEPT !.calls = Append(@, [event |-> e, listener |-> l])]
       IN ForEach(IF h.behaviour[l] = "once" THEN Off(called, e, l) ELSE called,
                  e, k + 1, len)

\* StreamingService.emitEvent, with the listeners
Emit(h, e) == ForEach(h, e, 1, Len(h.eventListeners[e]))

\* StreamingService.handleMessage
HandleMessage(h, type) ==
  IF type \in KnownTypes THEN Emit(Emit(h, "message"), type) ELSE Emit(h, "message")

----------------------------------------------------------------------------
(* fetchModels: the cache, the fetches under way and the calls *)

\* API_BASE_URL: the empty string where VITE_BACKEND_URL is not set, so that
\* the addresses are relative paths, or the absolute URL of the backend.
BaseUrls == {"relative", "absolute"}

\* The provider argument: "gguf", a remote provider, or none ("all").
Providers == {"gguf", "openai", "all"}

FetchCalls == 1..MaxFetchCalls

\* cacheKey, of the arguments that the model varies.
CacheKey(provider, dynamic) == [provider |-> provider, dynamic |-> dynamic]

CacheKeys == [provider : Providers, dynamic : BOOLEAN]

\* The promise of the async function of a fetch: "none" (not created),
\* "pending", "resolved", "rejected"; waiting holds the endpoints whose
\* authFetch it awaits, value is what it resolved with.
NoPromise == [state |-> "none", waiting |-> {}, value |-> "none"]

\* A fetchModels call: "idle", "awaiting" (its promise), "returned", "threw";
\* via tells how it got its result: "cache", "join" or "fetch" (its own
\* fetch, promise c for call c); result is what it returned.
NoFetchCall ==
  [pc |-> "idle", provider |-> "all", dynamic |-> FALSE, via |-> "none", promise |-> 0,
   result |-> "none"]

\* The module state.  A cache entry is "none", "fresh" (younger than
\* CACHE_TTL_MS) or "expired"; activeFetchPromises[k] = 0 stands for no entry;
\* requests counts the authFetch calls made.
NewModels(base) ==
  [base |-> base,
   modelsCache |-> [k \in CacheKeys |-> "none"],
   activeFetchPromises |-> [k \in CacheKeys |-> 0],
   promise |-> [c \in FetchCalls |-> NoPromise],
   call |-> [c \in FetchCalls |-> NoFetchCall],
   requests |-> 0]

NoModels == NewModels("absolute")

KeyOf(m, c) == CacheKey(m.call[c].provider, m.call[c].dynamic)

\* new URL(`${API_BASE_URL}/api/...`) throws a TypeError when the text is a
\* relative path: no base is given.
UrlThrows(m) == m.base = "relative"

\* authFetch is called for each of the endpoints and promise p awaits them.
Await(m, p, endpoints) ==
  [m EXCEPT !.promise[p] = [state |-> "pending", waiting |-> endpoints, value |-> "none"],
            !.requests = @ + Cardinality(endpoints)]

\* Promise p settles: the finally block deletes the entry of its key, then
\* the calls that await p go on: the call that made the fetch caches what
\* it resolved with.
SettleFetch(m, p, state, value) ==
  LET key == KeyOf(m, p)
      t == [m EXCEPT !.activeFetchPromises[key] = 0,
                     !.promise[p] = [state |-> state, waiting |-> {}, value |-> value]]
      u == IF state = "resolved" /\ t.call[p].pc = "awaiting"
           THEN [t EXCEPT !.modelsCache[key] = "fresh"] ELSE t
  IN [u EXCEPT !.call = [c \in FetchCalls |->
        IF @[c].pc = "awaiting" /\ @[c].promise = p
        THEN [@[c] EXCEPT !.pc = IF state = "resolved" THEN "returned" ELSE "threw",
                          !.result = value]
        ELSE @[c]]]

\* The async function of the fetch of call p, up to its first await or,
\* when it throws before, to its end.
StartFetch(m, p) ==
  CASE m.call[p].provider = "gguf" -> Await(m, p, {"local"})
    [] m.call[p].provider = "all" -> Await(m, p, {"local", "all"})
    [] UrlThrows(m) ->
         [m EXCEPT !.activeFetchPromises[KeyOf(m, p)] = 0,
                   !.promise[p] = [state |-> "rejected", waiting |-> {}, value |-> "TypeError"]]
    [] m.call[p].dynamic -> Await(m, p, {"dynamic"})
    [] OTHER -> Await(m, p, {"static"})

\* The call goes on with promise p: to the await, or past it when the
\* promise is settled already.
AwaitPromise(m, c, p, via) ==
  [m EXCEPT !.call[c].via = via, !.call[c].promise = p,
            !.call[c].pc = CASE m.promise[p].state = "pending" -> "awaiting"
                             [] m.promise[p].state = "resolved" -> "returned"
                             [] OTHER -> "threw",
            !.call[c].result = m.promise[p].value]

\* fetchModels(provider, { dynamic, forceRefresh }), as call c, up to its
\* return or its await.
FetchModels(m, c, provider, dynamic, forceRefresh) ==
  LET key == CacheKey(provider, dynamic)
      n == [m EXCEPT !.call[c].provider = provider, !.call[c].dynamic = dynamic]
  IN IF ~forceRefresh /\ n.modelsCache[key] = "fresh"
     THEN [n EXCEPT !.call[c].pc = "returned", !.call[c].via = "cache",
                    !.call[c].result = "cached"]
     ELSE IF n.activeFetchPromises[key] # 0
     THEN AwaitPromise(n, c, n.activeFetchPromises[key], "join")
     ELSE LET t == [StartFetch(n, c) EXCEPT !.activeFetchPromises[key] = c]
          IN AwaitPromise(t, c, c, "fetch")

\* authFetch of promise p for the endpoint settles: with a response that
\* has a models array ("models"), with another response ("other"), or it
\* rejects ("error").
OnResponse(m, p, endpoint, outcome) ==
  CASE m.call[p].provider = "all" ->
         IF m.promise[p].waiting = {endpoint}
         THEN SettleFetch(m, p, "resolved", "record")
         ELSE [m EXCEPT !.promise[p].waiting = @ \ {endpoint}]
    [] endpoint = "dynamic" /\ outcome # "models" -> Await(m, p, {"static"})
    [] outcome = "models" -> SettleFetch(m, p, "resolved", "models")
    [] outcome = "other" -> SettleFetch(m, p, "resolved", "empty")
    [] OTHER -> SettleFetch(m, p, "rejected", "Error")

----------------------------------------------------------------------------
(* The auth store: authAxios, its response interceptor and the actions *)

\* The endpoints of login, logout and refreshAccessToken.
AuthUrls == {"login", "logout", "refresh"}

\* The status of a response: 200, 401, or none.
Unauthorized == 401

\* error.response is undefined: the request failed without an answer.
NoResponse == 0

AuthStatuses == {200, Unauthorized, NoResponse}

\* The store and the requests made through authAxios, in the order made.
\* A request:
\*   url      the endpoint
\*   retry    the _retry mark of its config
\*   pc       "sent", "refreshing" (the interceptor awaits the refresh it
\*            posted with plain axios), "resent", "resolved", "rejected"
\*   by       who called the action that made it: "caller", "interceptor"
\*            (its catch block) or "catch" (that of refreshAccessToken)
\*   parent   the request whose failure made that call (0: none)
NewAuth(isAuthenticated) == [isAuthenticated |-> isAuthenticated, req |-> <<>>]

NoAuth == NewAuth(FALSE)

\* authAxios.post(url, ...): a request with a config of its own.
AuthAxiosPost(a, url, by, parent) ==
  [a EXCEPT !.req = Append(@, [url |-> url, retry |-> FALSE, pc |-> "sent",
                               by |-> by, parent |-> parent])]

\* useAuth.logout, up to its await.
Logout(a, by, parent) == AuthAxiosPost(a, "logout", by, parent)

\* What the action that awaits request q does when the request resolved.
Then(a, q) ==
  [a EXCEPT !.req[q].pc = "resolved",
            !.isAuthenticated = (a.req[q].url # "logout")]

\* What the action that awaits request q does when the request rejected:
\* refreshAccessToken catches and calls logout, login and logout throw.
Catch(a, q) ==
  LET t == [a EXCEPT !.req[q].pc = "rejected"]
  IN IF a.req[q].url = "refresh" THEN Logout(t, "catch", q) ELSE t

\* The response interceptor on the answer to request q.
Interceptor(a, q, status) ==
  CASE status = 200 -> Then(a, q)
    [] status = Unauthorized /\ ~a.req[q].retry ->
         [a EXCEPT !.req[q].retry = TRUE, !.req[q].pc = "refreshing"]
    [] OTHER -> Catch(a, q)

\* The refresh that the interceptor posted for request q settles: ok, and
\* the request is sent again; or not, and the interceptor calls logout and
\* rejects.
AfterRefresh(a, q, ok) ==
  IF ok THEN [a EXCEPT !.req[q].pc = "resent"]
  ELSE Catch(Logout(a, "interceptor", q), q)

----------------------------------------------------------------------------
Init ==
  /\ mode \in {"reader", "facade", "manager"}
  /\ script \in [Readers -> ReaderScripts \cup FacadeScripts]
  /\ CASE mode = "reader" -> script[1] \in ReaderScripts /\ script[2] = NoScript
       [] mode = "facade" -> script[1] \in FacadeScripts /\ script[2] \in FacadeScripts
       [] OTHER -> script[1] = NoScript /\ script[2] = NoScript
  /\ bodyPos = [r \in Readers |-> 0]
  /\ bodyErr = [r \in Readers |-> FALSE]
  /\ cbMaxRetries \in {0, DefaultMaxRetries}
  /\ mode = "manager" => cbMaxRetries = DefaultMaxRetries
  /\ now = 0
  /\ aborted = FALSE
  /\ sc = [pc |-> CASE mode = "reader" -> "new" [] mode = "facade" -> "idle" [] OTHER -> "manager",
           attempt |-> 1,
           firstError |-> NoError, outcome |-> Pending]
  /\ fetch = [r \in Readers |-> "none"]
  /\ listener = [r \in Readers |-> FALSE]
  /\ rd = [r \in Readers |->
             IF mode = "reader" /\ r = 1 THEN NewReader(cbMaxRetries) ELSE NoReader]
  /\ activeStreams = [i \in Ids |-> 0]
  /\ streamId = [r \in Readers |-> -1]
  /\ autoDone = [r \in Readers |-> FALSE]
  /\ chunkLog = <<>>
  /\ statusLog = <<>>
  /\ errLog = <<>>
  /\ cancelCalls = [r \in Readers |-> 0]
  /\ gapRead = FALSE
  /\ abortedAt = 0
  /\ cancelledLive = [r \in Readers |-> FALSE]
  /\ silent = [r \in Readers |-> FALSE]
  /\ wire = EmptyLine
  /\ decoded = NotDecoded
  /\ encoded = NotEncoded
  /\ svc = NewService
  /\ starts = [c \in StartCalls |-> NoCall]
  /\ stops = NoStop
  /\ hub = NewHub
  /\ models = NoModels
  /\ auth = NoAuth

\* Date.now() advances.  The clock is read only when a response arrives
\* (the stream id), so time is let pass only while a fetch is in flight.
Tick ==
  /\ now < MaxNow
  /\ sc.pc = "fetch"
  /\ now' = now + 1
  /\ UNCHANGED <<otherVars, svc, starts, stops, wire, decoded, encoded, mode, script, bodyPos, bodyErr, cbMaxRetries, aborted, sc, fetch,
                 listener, rd, activeStreams, streamId, autoDone, chunkLog,
                 statusLog, errLog, cancelCalls, gapRead, abortedAt, cancelledLive, silent>>

\* A caller calls readToCompletion on its own reader.
ReadToCompletionCall ==
  /\ mode = "reader" /\ sc.pc = "new"
  /\ rd' = [rd EXCEPT ![1] = ReadEventsStart(rd[1], 1, "caller")]
  /\ sc' = [sc EXCEPT !.pc = "drain"]
  /\ UNCHANGED <<otherVars, svc, starts, stops, wire, decoded, encoded, mode, script, bodyPos, bodyErr, cbMaxRetries, now, aborted, fetch,
                 listener, activeStreams, streamId, autoDone, chunkLog, statusLog,
                 errLog, cancelCalls, gapRead, abortedAt, cancelledLive, silent>>

\* streamChat is called: createStream runs to its fetch.
StreamChatCall ==
  /\ mode = "facade" /\ sc.pc = "idle"
  /\ sc' = [sc EXCEPT !.pc = "fetch"]
  /\ fetch' = [fetch EXCEPT ![1] = "pending"]
  /\ listener' = [listener EXCEPT ![1] = ~aborted]
  /\ UNCHANGED <<otherVars, svc, starts, stops, wire, decoded, encoded, mode, script, bodyPos, bodyErr, cbMaxRetries, now, aborted, rd,
                 activeStreams, streamId, autoDone, chunkLog, statusLog, errLog,
                 cancelCalls, gapRead, abortedAt, cancelledLive, silent>>

\* The fetch of attempt r resolves with a response of the given status:
\* createStream runs from the await of fetch to its return or throw.
FetchResolve(r, status) ==
  /\ mode = "facade" /\ sc.pc = "fetch" /\ sc.attempt = r /\ fetch[r] = "pending"
  /\ IF ResponseOk(status)
     THEN /\ rd' = [rd EXCEPT ![r] = ReadEventsStart(NewReader(ReaderMaxRetries(r)), r, "auto")]
          /\ streamId' = [streamId EXCEPT ![r] = now]
          /\ activeStreams' = [activeStreams EXCEPT ![now] = r]
          /\ fetch' = [fetch EXCEPT ![r] = "ok"]
          /\ sc' = [sc EXCEPT !.pc = "gap"]
          /\ UNCHANGED listener
     ELSE LET c == FacadeCatch(HttpError(status, r), aborted,
                               [fetch EXCEPT ![r] = "failed"], listener)
          IN /\ sc' = c.sc /\ fetch' = c.fetch /\ listener' = c.listener
             /\ UNCHANGED <<rd, streamId, activeStreams>>
  /\ gapRead' = FALSE
  /\ UNCHANGED <<otherVars, svc, starts, stops, wire, decoded, encoded, mode, script, bodyPos, bodyErr, cbMaxRetries, now, aborted,
                 autoDone, chunkLog, statusLog, errLog, cancelCalls, abortedAt, cancelledLive, silent>>

\* The fetch of attempt r rejects (no connection).
FetchFail(r) ==
  /\ mode = "facade" /\ sc.pc = "fetch" /\ sc.attempt = r /\ fetch[r] = "pending"
  /\ LET c == FacadeCatch(FetchError(r), aborted, [fetch EXCEPT ![r] = "failed"], listener)
     IN sc' = c.sc /\ fetch' = c.fetch /\ listener' = c.listener
  /\ UNCHANGED <<otherVars, svc, starts, stops, wire, decoded, encoded, mode, script, bodyPos, bodyErr, cbMaxRetries, now, aborted, rd,
                 activeStreams, streamId, autoDone, chunkLog, statusLog, errLog,
                 cancelCalls, gapRead, abortedAt, cancelledLive, silent>>

\* The timer of createStream fires before the response: controller.abort().
FetchTimeout(r) ==
  /\ mode = "facade" /\ sc.pc = "fetch" /\ sc.attempt = r /\ fetch[r] = "pending"
  /\ LET c == FacadeCatch(AbortError(r), aborted, [fetch EXCEPT ![r] = "failed"], listener)
     IN sc' = c.sc /\ fetch' = c.fetch /\ listener' = c.listener
  /\ UNCHANGED <<otherVars, svc, starts, stops, wire, decoded, encoded, mode, script, bodyPos, bodyErr, cbMaxRetries, now, aborted, rd,
                 activeStreams, streamId, autoDone, chunkLog, statusLog, errLog,
                 cancelCalls, gapRead, abortedAt, cancelledLive, silent>>

\* A caller calls SSEService.createStream: createStream runs to its fetch.
\* The two callers use the same URL; the caller of stream 1 comes first.
CreateStreamCall(r) ==
  /\ mode = "manager" /\ fetch[r] = "none"
  /\ r = 2 => fetch[1] # "none"
  /\ fetch' = [fetch EXCEPT ![r] = "pending"]
  /\ listener' = [listener EXCEPT ![r] = ~aborted]
  /\ UNCHANGED <<otherVars, svc, starts, stops, wire, decoded, encoded, mode, script, bodyPos, bodyErr, cbMaxRetries, now, aborted, sc, rd,
                 activeStreams, streamId, autoDone, chunkLog, statusLog, errLog,
                 cancelCalls, gapRead, abortedAt, cancelledLive, silent>>

\* The fetch of such a call resolves when Date.now() is t: createStream runs
\* from the await of fetch to its return or throw.
CreateStreamResolve(r, status, t) ==
  /\ mode = "manager" /\ fetch[r] = "pending"
  /\ t >= now
  /\ now' = t
  /\ IF ResponseOk(status)
     THEN /\ rd' = [rd EXCEPT ![r] = ReadEventsStart(NewReader(cbMaxRetries), r, "auto")]
          /\ streamId' = [streamId EXCEPT ![r] = t]
          /\ activeStreams' = [activeStreams EXCEPT ![t] = r]
          /\ fetch' = [fetch EXCEPT ![r] = "ok"]
     ELSE /\ fetch' = [fetch EXCEPT ![r] = "failed"]
          /\ UNCHANGED <<rd, streamId, activeStreams>>
  /\ UNCHANGED <<otherVars, svc, starts, stops, wire, decoded, encoded, mode, script, bodyPos, bodyErr, cbMaxRetries, aborted, sc, listener,
                 autoDone, chunkLog, statusLog, errLog, cancelCalls, gapRead,
                 abortedAt, cancelledLive, silent>>

\* callbacks.signal is aborted: every registered listener aborts its
\* controller, which rejects a pending fetch and errors a body being read.
Abort ==
  /\ mode = "facade" /\ ~aborted
  /\ aborted' = TRUE
  /\ bodyErr' = [r \in Readers |-> bodyErr[r] \/ (listener[r] /\ fetch[r] = "ok")]
  /\ LET fired == [r \in Readers |-> FALSE]
     IN IF sc.pc = "fetch" /\ listener[sc.attempt] /\ fetch[sc.attempt] = "pending"
        THEN LET c == FacadeCatch(AbortError(sc.attempt), TRUE,
                                  [fetch EXCEPT ![sc.attempt] = "failed"], fired)
             IN sc' = c.sc /\ fetch' = c.fetch /\ listener' = c.listener
        ELSE sc' = sc /\ fetch' = fetch /\ listener' = fired
  /\ abortedAt' = IF InFlight THEN sc.attempt ELSE 0
  /\ UNCHANGED <<otherVars, svc, starts, stops, wire, decoded, encoded, mode, script, bodyPos, cbMaxRetries, now, rd, activeStreams,
                 streamId, autoDone, chunkLog, statusLog, errLog, cancelCalls,
                 gapRead, cancelledLive, silent>>

\* streamChat resumes from the await of createStream and calls
\* readToCompletion on the reader it got.
StreamChatDrain ==
  /\ mode = "facade" /\ sc.pc = "gap"
  /\ rd' = [rd EXCEPT ![sc.attempt] = ReadEventsStart(rd[sc.attempt], sc.attempt, "caller")]
  /\ sc' = [sc EXCEPT !.pc = "drain"]
  /\ gapRead' = FALSE
  /\ UNCHANGED <<otherVars, svc, starts, stops, wire, decoded, encoded, mode, script, bodyPos, bodyErr, cbMaxRetries, now, aborted, fetch,
                 listener, activeStreams, streamId, autoDone, chunkLog, statusLog,
                 errLog, cancelCalls, abortedAt, cancelledLive, silent>>

\* The pending read() of drain d of reader r settles: with the next
\* delivery, with done, or with the error of the body.
ReadResolve(r, d) ==
  /\ rd[r].created /\ rd[r].dr[d].pc = "read"
  /\ InGap(r) => ~gapRead
  /\ LET s == rd[r]
         n == bodyPos[r]
     IN IF bodyErr[r] \/ (n = Len(script[r].dl) /\ script[r].end = "error")
        THEN rd' = [rd EXCEPT ![r] = Throw(s, d, NetworkError(s, r))] /\ UNCHANGED <<bodyPos, silent>>
        ELSE IF n = Len(script[r].dl)
        THEN rd' = [rd EXCEPT ![r] = OnDone(s, d)] /\ UNCHANGED <<bodyPos, silent>>
        ELSE /\ rd' = [rd EXCEPT ![r] = OnDelivery(s, r, d, script[r].dl[n + 1])]
             /\ bodyPos' = [bodyPos EXCEPT ![r] = n + 1]
             /\ silent' = [silent EXCEPT ![r] = FALSE]
  /\ gapRead' = (gapRead \/ InGap(r))
  /\ UNCHANGED <<otherVars, svc, starts, stops, wire, decoded, encoded, mode, script, bodyErr, cbMaxRetries, now, aborted, sc, fetch,
                 listener, activeStreams, streamId, autoDone, chunkLog, statusLog,
                 errLog, cancelCalls, abortedAt, cancelledLive>>

\* The read() of drain d that releaseLock rejected resumes in the catch block.
ResumeRejected(r, d) ==
  /\ rd[r].created /\ rd[r].dr[d].pc = "rejected"
  /\ ~InGap(r)
  /\ rd' = [rd EXCEPT ![r] = Throw(rd[r], d, NetworkError(rd[r], r))]
  /\ UNCHANGED <<otherVars, svc, starts, stops, wire, decoded, encoded, mode, script, bodyPos, bodyErr, cbMaxRetries, now, aborted, sc,
                 fetch, listener, activeStreams, streamId, autoDone, chunkLog,
                 statusLog, errLog, cancelCalls, gapRead, abortedAt, cancelledLive, silent>>

\* readToCompletion of drain d receives the next event of the batch.
Deliver(r, d) ==
  /\ rd[r].created /\ rd[r].dr[d].pc = "yield"
  /\ ~InGap(r)
  /\ LET e == Head(rd[r].dr[d].batch)
     IN /\ rd' = [rd EXCEPT ![r] = Consume(rd[r], r, d, e)]
        /\ chunkLog' = IF e.type = "chunk"
                       THEN Append(chunkLog, [r |-> r, arg |-> ChunkContent(e)])
                       ELSE chunkLog
        /\ statusLog' = IF e.type = "status"
                        THEN Append(statusLog, [r |-> r, arg |-> StatusMessage(e)])
                        ELSE statusLog
  /\ UNCHANGED <<otherVars, svc, starts, stops, wire, decoded, encoded, mode, script, bodyPos, bodyErr, cbMaxRetries, now, aborted, sc,
                 fetch, listener, activeStreams, streamId, autoDone, errLog,
                 cancelCalls, gapRead, abortedAt, cancelledLive, silent>>

\* The promise of the caller's readToCompletion settles.
Settle ==
  /\ sc.pc = "drain"
  /\ LET dc == rd[sc.attempt].dr["caller"]
     IN /\ dc.pc \in {"done", "failed"}
        /\ IF dc.pc = "done"
           THEN /\ sc' = [sc EXCEPT !.pc = "done", !.outcome = Resolved(dc.full)]
                /\ UNCHANGED <<fetch, listener>>
           ELSE IF mode = "reader"
           THEN /\ sc' = [sc EXCEPT !.pc = "done", !.outcome = Rejected(dc.err)]
                /\ UNCHANGED <<fetch, listener>>
           ELSE LET c == FacadeCatch(dc.err, aborted, fetch, listener)
                IN sc' = c.sc /\ fetch' = c.fetch /\ listener' = c.listener
  /\ UNCHANGED <<otherVars, svc, starts, stops, wire, decoded, encoded, mode, script, bodyPos, bodyErr, cbMaxRetries, now, aborted, rd,
                 activeStreams, streamId, autoDone, chunkLog, statusLog, errLog,
                 cancelCalls, gapRead, abortedAt, cancelledLive, silent>>

\* A finally that would run without deleting the entry.  It is not the
\* program's finally: C11 is shown to depend on the delete.
AutoCleanupKeepingEntry(r) ==
  /\ mode # "reader" /\ rd[r].created /\ ~autoDone[r]
  /\ rd[r].dr["auto"].pc \in {"done", "failed"}
  /\ ~InGap(r)
  /\ autoDone' = [autoDone EXCEPT ![r] = TRUE]
  /\ UNCHANGED <<otherVars, svc, starts, stops, wire, decoded, encoded, mode, script, bodyPos, bodyErr, cbMaxRetries, now, aborted, sc,
                 fetch, listener, rd, activeStreams, streamId, chunkLog, statusLog,
                 errLog, cancelCalls, gapRead, abortedAt, cancelledLive, silent>>

\* The .finally() of the auto-cleanup drain of reader r runs.
AutoCleanup(r) ==
  /\ mode # "reader" /\ rd[r].created /\ ~autoDone[r]
  /\ rd[r].dr["auto"].pc \in {"done", "failed"}
  /\ ~InGap(r)
  /\ activeStreams' = [activeStreams EXCEPT ![streamId[r]] = 0]
  /\ autoDone' = [autoDone EXCEPT ![r] = TRUE]
  /\ UNCHANGED <<otherVars, svc, starts, stops, wire, decoded, encoded, mode, script, bodyPos, bodyErr, cbMaxRetries, now, aborted, sc,
                 fetch, listener, rd, streamId, chunkLog, statusLog, errLog,
                 cancelCalls, gapRead, abortedAt, cancelledLive, silent>>

\* The server stays silent on the body of reader r, which is waiting for it,
\* for longer than the reader's timeout.
Quiet(r) ==
  /\ rd[r].created /\ rd[r].heartbeatInterval /\ ~silent[r]
  /\ \E d \in Drains : rd[r].dr[d].pc = "read"
  /\ ~InGap(r)
  /\ silent' = [silent EXCEPT ![r] = TRUE]
  /\ UNCHANGED <<otherVars, svc, starts, stops, wire, decoded, encoded, mode, script, bodyPos, bodyErr, cbMaxRetries, now, aborted, sc,
                 fetch, listener, rd, activeStreams, streamId, autoDone, chunkLog,
                 statusLog, errLog, cancelCalls, gapRead, abortedAt, cancelledLive>>

\* The onError call of the heartbeat.
TimeoutReport(r) == <<[type |-> "TIMEOUT", recoverable |-> TRUE, r |-> r]>>

RECURSIVE TimeoutReports(_, _)
TimeoutReports(log, r) ==
  IF log = <<>> THEN 0
  ELSE (IF Head(log).r = r /\ Head(log).type = "TIMEOUT" THEN 1 ELSE 0)
       + TimeoutReports(Tail(log), r)

\* A heartbeat that would give the stream up when it finds the timeout
\* exceeded.  It is not the program's heartbeat: C15 is shown to depend on the
\* callback doing nothing but the report.
HeartbeatCancelling(r) ==
  /\ rd[r].created /\ rd[r].heartbeatInterval /\ silent[r]
  /\ TimeoutReports(errLog, 1) + TimeoutReports(errLog, 2) < MaxBeats
  /\ errLog' = errLog \o TimeoutReport(r)
  /\ rd' = [rd EXCEPT ![r] = CancelReader(rd[r])]
  /\ UNCHANGED <<otherVars, svc, starts, stops, wire, decoded, encoded, mode, script, bodyPos, bodyErr, cbMaxRetries, now, aborted, sc,
                 fetch, listener, activeStreams, streamId, autoDone, chunkLog,
                 statusLog, cancelCalls, gapRead, abortedAt, cancelledLive, silent>>

\* The interval callback of startHeartbeat runs on reader r while
\* timeSinceLastEvent > timeout.  (While it is not, the callback does nothing.)
Heartbeat(r) ==
  /\ rd[r].created /\ rd[r].heartbeatInterval /\ silent[r]
  /\ TimeoutReports(errLog, 1) + TimeoutReports(errLog, 2) < MaxBeats
  /\ errLog' = errLog \o TimeoutReport(r)
  /\ UNCHANGED <<otherVars, svc, starts, stops, wire, decoded, encoded, mode, script, bodyPos, bodyErr, cbMaxRetries, now, aborted, sc,
                 fetch, listener, rd, activeStreams, streamId, autoDone, chunkLog,
                 statusLog, cancelCalls, gapRead, abortedAt, cancelledLive, silent>>

\* The onError call of cancel().
CancelReport(r) == <<[type |-> "CANCELLED", recoverable |-> FALSE, r |-> r]>>

\* reader.cancel() on reader r.
Cancel(r) ==
  /\ rd[r].created /\ MayCancel
  /\ rd' = [rd EXCEPT ![r] = CancelReader(rd[r])]
  /\ errLog' = errLog \o CancelReport(r)
  /\ cancelCalls' = [cancelCalls EXCEPT ![r] = @ + 1]
  /\ cancelledLive' = [cancelledLive EXCEPT ![r] = @ \/ Draining(r)]
  /\ UNCHANGED <<otherVars, svc, starts, stops, wire, decoded, encoded, mode, script, bodyPos, bodyErr, cbMaxRetries, now, aborted, sc,
                 fetch, listener, activeStreams, streamId, autoDone, chunkLog,
                 statusLog, gapRead, abortedAt, silent>>

\* The readers SSEManager.activeStreams holds.
Tracked == {activeStreams[i] : i \in Ids} \ {0}

\* SSEManager.getActiveStreamCount()
GetActiveStreamCount == Cardinality({i \in Ids : activeStreams[i] # 0})

\* SSEManager.getActiveStreamIds()
GetActiveStreamIds == {i \in Ids : activeStreams[i] # 0}

\* A cancelAll that would cancel the tracked readers and keep their entries.
\* It is not the program's cancelAll: C13 is shown to depend on the clear().
CancelAllKeepingEntries ==
  /\ mode # "reader" /\ MayCancel
  /\ rd' = [r \in Readers |-> IF r \in Tracked THEN CancelReader(rd[r]) ELSE rd[r]]
  /\ errLog' = errLog \o (IF 1 \in Tracked THEN CancelReport(1) ELSE <<>>)
                      \o (IF 2 \in Tracked THEN CancelReport(2) ELSE <<>>)
  /\ cancelCalls' = [r \in Readers |-> IF r \in Tracked THEN cancelCalls[r] + 1 ELSE cancelCalls[r]]
  /\ cancelledLive' = [r \in Readers |-> cancelledLive[r] \/ (r \in Tracked /\ Draining(r))]
  /\ UNCHANGED <<otherVars, svc, starts, stops, wire, decoded, encoded, mode, script, bodyPos, bodyErr, cbMaxRetries, now, aborted, sc,
                 fetch, listener, activeStreams, streamId, autoDone, chunkLog,
                 statusLog, gapRead, abortedAt, silent>>

\* SSEManager.cancelAll()
CancelAll ==
  /\ mode # "reader" /\ MayCancel
  /\ rd' = [r \in Readers |-> IF r \in Tracked THEN CancelReader(rd[r]) ELSE rd[r]]
  /\ errLog' = errLog \o (IF 1 \in Tracked THEN CancelReport(1) ELSE <<>>)
                      \o (IF 2 \in Tracked THEN CancelReport(2) ELSE <<>>)
  /\ cancelCalls' = [r \in Readers |-> IF r \in Tracked THEN cancelCalls[r] + 1 ELSE cancelCalls[r]]
  /\ activeStreams' = [i \in Ids |-> 0]
  /\ cancelledLive' = [r \in Readers |-> cancelledLive[r] \/ (r \in Tracked /\ Draining(r))]
  /\ UNCHANGED <<otherVars, svc, starts, stops, wire, decoded, encoded, mode, script, bodyPos, bodyErr, cbMaxRetries, now, aborted, sc,
                 fetch, listener, streamId, autoDone, chunkLog, statusLog, gapRead,
                 abortedAt, silent>>

Next ==
  \/ Tick
  \/ ReadToCompletionCall
  \/ StreamChatCall
  \/ \E r \in Readers, status \in Statuses : FetchResolve(r, status)
  \/ \E r \in Readers : FetchFail(r)
  \/ \E r \in Readers : FetchTimeout(r)
  \/ \E r \in Readers : CreateStreamCall(r)
  \/ \E r \in Readers, status \in Statuses, t \in Ids : CreateStreamResolve(r, status, t)
  \/ Abort
  \/ StreamChatDrain
  \/ \E r \in Readers, d \in Drains : ReadResolve(r, d)
  \/ \E r \in Readers, d \in Drains : ResumeRejected(r, d)
  \/ \E r \in Readers, d \in Drains : Deliver(r, d)
  \/ Settle
  \/ \E r \in Readers : AutoCleanup(r)
  \/ \E r \in Readers : Quiet(r)
  \/ \E r \in Readers : Heartbeat(r)
  \/ \E r \in Readers : Cancel(r)
  \/ CancelAll

Spec == Init /\ [][Next]_vars

\* A job of the event loop that belongs to the program, or the server going
\* on with a body that is being read.
Progress ==
  \/ StreamChatDrain
  \/ Settle
  \/ \E r \in Readers : AutoCleanup(r)
  \/ \E r \in Readers, d \in Drains :
       ReadResolve(r, d) \/ ResumeRejected(r, d) \/ Deliver(r, d)

\* Scheduling: the event loop does not stop while a job is ready, and the
\* server goes on with the body it has begun (it sends the next delivery or
\* ends the body) as long as a read of it is pending.
Fairness == WF_vars(Progress)

\* The runs the liveness properties are checked on: callbacks without
\* maxRetries, the retry's body like the first or empty.
LiveInit ==
  /\ Init
  /\ cbMaxRetries = DefaultMaxRetries
  /\ script[1] \in FacadeScripts
  /\ script[2] \in {script[1], NoScript}

LiveSpec == LiveInit /\ [][Next]_vars /\ Fairness

----------------------------------------------------------------------------
(* The codec on its own: one line is decoded, the event is encoded again. *)

CodecInit ==
  /\ mode = "codec"
  /\ wire \in WireLines
  /\ decoded = NotDecoded
  /\ encoded = NotEncoded
  /\ now \in Ids
  /\ script = [r \in Readers |-> NoScript]
  /\ bodyPos = [r \in Readers |-> 0]
  /\ bodyErr = [r \in Readers |-> FALSE]
  /\ cbMaxRetries = DefaultMaxRetries
  /\ aborted = FALSE
  /\ sc = [pc |-> "codec", attempt |-> 1, firstError |-> NoError, outcome |-> Pending]
  /\ fetch = [r \in Readers |-> "none"]
  /\ listener = [r \in Readers |-> FALSE]
  /\ rd = [r \in Readers |-> NoReader]
  /\ activeStreams = [i \in Ids |-> 0]
  /\ streamId = [r \in Readers |-> -1]
  /\ autoDone = [r \in Readers |-> FALSE]
  /\ chunkLog = <<>>
  /\ statusLog = <<>>
  /\ errLog = <<>>
  /\ cancelCalls = [r \in Readers |-> 0]
  /\ gapRead = FALSE
  /\ abortedAt = 0
  /\ cancelledLive = [r \in Readers |-> FALSE]
  /\ silent = [r \in Readers |-> FALSE]
  /\ svc = NewService
  /\ starts = [c \in StartCalls |-> NoCall]
  /\ stops = NoStop
  /\ hub = NewHub
  /\ models = NoModels
  /\ auth = NoAuth

\* A caller hands the line to the exported parseSSELine.
ParseLineCall ==
  /\ mode = "codec" /\ decoded = NotDecoded
  /\ decoded' = [by |-> "parseSSELine", event |-> parseSSELine(wire, now)]
  /\ UNCHANGED <<otherVars, svc, starts, stops, wire, encoded, mode, script, bodyPos, bodyErr, cbMaxRetries, now, aborted,
                 sc, fetch, listener, rd, activeStreams, streamId, autoDone, chunkLog,
                 statusLog, errLog, cancelCalls, gapRead, abortedAt, cancelledLive, silent>>

\* parseBuffer hands the line to the reader's parseSSELine.
ReaderParseLine ==
  /\ mode = "codec" /\ decoded = NotDecoded
  /\ wire # EmptyLine
  /\ decoded' = [by |-> "SSEStreamReader", event |-> ParseSSELineFields(wire, now)]
  /\ UNCHANGED <<otherVars, svc, starts, stops, wire, encoded, mode, script, bodyPos, bodyErr, cbMaxRetries, now, aborted,
                 sc, fetch, listener, rd, activeStreams, streamId, autoDone, chunkLog,
                 statusLog, errLog, cancelCalls, gapRead, abortedAt, cancelledLive, silent>>

\* The event that came out is encoded with createSSEEvent.
CreateSSEEventCall ==
  /\ mode = "codec" /\ decoded # NotDecoded /\ decoded.event # Null
  /\ encoded = NotEncoded
  /\ encoded' = createSSEEvent(decoded.event)
  /\ UNCHANGED <<otherVars, svc, starts, stops, wire, decoded, mode, script, bodyPos, bodyErr, cbMaxRetries, now, aborted,
                 sc, fetch, listener, rd, activeStreams, streamId, autoDone, chunkLog,
                 statusLog, errLog, cancelCalls, gapRead, abortedAt, cancelledLive, silent>>

CodecNext ==
  \/ ParseLineCall
  \/ ReaderParseLine
  \/ CreateSSEEventCall

CodecSpec == CodecInit /\ [][CodecNext]_vars

----------------------------------------------------------------------------
(* StreamingService: one service, its callers, its sockets and its timers *)

sseVars == <<mode, script, bodyPos, bodyErr, cbMaxRetries, now, aborted, sc, fetch,
             listener, rd, activeStreams, streamId, autoDone, chunkLog, statusLog,
             errLog, cancelCalls, gapRead, abortedAt, cancelledLive, silent,
             wire, decoded, encoded>>

WsModes == {"ws", "reconnect"}

\* The run may go on with one more WebSocket.
MaySocket ==
  Cardinality({k \in Sockets : svc.sock[k].readyState # "none"})
    < (IF mode = "ws" THEN MaxSessionSockets ELSE MaxSockets)

WsInit ==
  /\ mode \in WsModes
  /\ svc = NewService
  /\ starts = [c \in StartCalls |-> NoCall]
  /\ stops = NoStop
  /\ wire = EmptyLine
  /\ decoded = NotDecoded
  /\ encoded = NotEncoded
  /\ now = 0
  /\ script = [r \in Readers |-> NoScript]
  /\ bodyPos = [r \in Readers |-> 0]
  /\ bodyErr = [r \in Readers |-> FALSE]
  /\ cbMaxRetries = DefaultMaxRetries
  /\ aborted = FALSE
  /\ sc = [pc |-> "ws", attempt |-> 1, firstError |-> NoError, outcome |-> Pending]
  /\ fetch = [r \in Readers |-> "none"]
  /\ listener = [r \in Readers |-> FALSE]
  /\ rd = [r \in Readers |-> NoReader]
  /\ activeStreams = [i \in Ids |-> 0]
  /\ streamId = [r \in Readers |-> -1]
  /\ autoDone = [r \in Readers |-> FALSE]
  /\ chunkLog = <<>>
  /\ statusLog = <<>>
  /\ errLog = <<>>
  /\ cancelCalls = [r \in Readers |-> 0]
  /\ gapRead = FALSE
  /\ abortedAt = 0
  /\ cancelledLive = [r \in Readers |-> FALSE]
  /\ silent = [r \in Readers |-> FALSE]
  /\ hub = NewHub
  /\ models = NoModels
  /\ auth = NoAuth

\* The c-th startSession call is made: it runs to the await of authFetch,
\* or throws 'Connection already exists'.  In "reconnect" mode a call is
\* made only after the call before it has returned.
StartSessionCall(c) ==
  /\ mode \in WsModes /\ starts[c].pc = "idle"
  /\ c > 1 => /\ starts[c - 1].pc # "idle"
              /\ mode = "reconnect" => starts[c - 1].pc \in {"resolved", "rejected"}
  /\ starts' = [starts EXCEPT ![c] =
                  IF svc.isConnecting \/ svc.websocket # 0
                  THEN [@ EXCEPT !.pc = "rejected",
                                 !.err = PlainError("Connection already exists")]
                  ELSE [@ EXCEPT !.pc = "handshake"]]
  /\ svc' = Fresh(svc)
  /\ UNCHANGED <<stops, sseVars, otherVars>>

\* authFetch of call c resolves with a session (its id is c): startSession
\* sets sessionId and runs connectWebSocket to the await of its promise.
HandshakeResolve(c) ==
  /\ mode \in WsModes /\ starts[c].pc = "handshake"
  /\ MaySocket
  /\ LET k == NextSocket(svc)
     IN /\ svc' = ConnectWebSocket([Fresh(svc) EXCEPT !.sessionId = c], k)
        /\ starts' = [starts EXCEPT ![c].pc = "connect", ![c].sock = k]
  /\ UNCHANGED <<stops, sseVars, otherVars>>

\* A failed handshake that would leave the session id of the call behind.
\* It is not the program's: C29 is shown to depend on the order of
\* startSession, which sets sessionId only after the await.
HandshakeFailKeepingSession(c) ==
  /\ mode \in WsModes /\ starts[c].pc = "handshake"
  /\ starts' = [starts EXCEPT ![c].pc = "rejected", ![c].err = AuthFetchError]
  /\ svc' = [Fresh(svc) EXCEPT !.sessionId = c]
  /\ UNCHANGED <<stops, sseVars, otherVars>>

\* authFetch of call c rejects: startSession throws what it caught.
HandshakeFail(c) ==
  /\ mode \in WsModes /\ starts[c].pc = "handshake"
  /\ starts' = [starts EXCEPT ![c].pc = "rejected", ![c].err = AuthFetchError]
  /\ svc' = Fresh(svc)
  /\ UNCHANGED <<stops, sseVars, otherVars>>

\* The connection of socket k is established.
SocketOpens(k) ==
  /\ mode \in WsModes /\ svc.sock[k].readyState = "CONNECTING"
  /\ svc' = Tidy(OnOpen(Fresh(svc), k))
  /\ starts' = Resume(starts, OnOpen(Fresh(svc), k))
  /\ UNCHANGED <<stops, sseVars, otherVars>>

\* The connection of socket k cannot be established.
SocketFails(k) ==
  /\ mode \in WsModes /\ svc.sock[k].readyState = "CONNECTING"
  /\ svc' = Tidy(CloseEvents([Fresh(svc) EXCEPT !.sock[k].failing = TRUE], k, AbnormalClosure))
  /\ starts' = Resume(starts, CloseEvents([Fresh(svc) EXCEPT !.sock[k].failing = TRUE], k, AbnormalClosure))
  /\ UNCHANGED <<stops, sseVars, otherVars>>

\* The open connection of socket k ends from the far side: closed by the
\* server (NormalClosure) or broken (AbnormalClosure).
SocketCloses(k, code) ==
  /\ mode \in WsModes /\ svc.sock[k].readyState = "OPEN"
  /\ svc' = Tidy(OnClose(Fresh(svc), k, code))
  /\ starts' = Resume(starts, OnClose(Fresh(svc), k, code))
  /\ UNCHANGED <<stops, sseVars, otherVars>>

\* The close that close() began on socket k is complete.
CloseCompletes(k) ==
  /\ mode \in WsModes /\ svc.sock[k].readyState = "CLOSING"
  /\ svc' = Tidy(CloseEvents(Fresh(svc), k, svc.sock[k].closeCode))
  /\ starts' = Resume(starts, CloseEvents(Fresh(svc), k, svc.sock[k].closeCode))
  /\ UNCHANGED <<stops, sseVars, otherVars>>

\* The connection timer of socket k fires.  The timers all wait equally
\* long, so they fire in the order in which they were armed.
ConnectTimeout(k) ==
  /\ mode \in WsModes /\ svc.sock[k].timeout = "armed"
  /\ \A j \in 1..(k - 1) : svc.sock[j].timeout # "armed"
  /\ svc' = Tidy(OnConnectTimeout(Fresh(svc), k))
  /\ starts' = Resume(starts, OnConnectTimeout(Fresh(svc), k))
  /\ UNCHANGED <<stops, sseVars, otherVars>>

\* The i-th pending timer of handleReconnect fires.
ReconnectFires(i) ==
  /\ mode \in WsModes /\ i \in 1..Len(svc.reconnects)
  /\ svc.sessionId # 0 => MaySocket
  /\ LET t == [Fresh(svc) EXCEPT !.reconnects =
                  SubSeq(@, 1, i - 1) \o SubSeq(@, i + 1, Len(@))]
     IN svc' = IF t.sessionId # 0 THEN ConnectWebSocket(t, NextSocket(t)) ELSE t
  /\ UNCHANGED <<starts, stops, sseVars, otherVars>>

\* stopSession is called: it runs to the await of authFetch, or, without a
\* session id, to its end.
StopSessionCall ==
  /\ mode = "ws" /\ stops.pc \in {"idle", "done"} /\ stops.calls < MaxStops
  /\ IF svc.sessionId # 0
     THEN /\ stops' = [stops EXCEPT !.pc = "rest", !.calls = @ + 1]
          /\ svc' = Fresh(svc)
     ELSE /\ stops' = [stops EXCEPT !.pc = "done", !.calls = @ + 1]
          /\ svc' = Disconnect(Fresh(svc))
  /\ UNCHANGED <<starts, sseVars, otherVars>>

\* authFetch of stopSession settles (ok: it resolved; stopSession does not
\* look at the outcome); stopSession runs to its end.
StopRestSettles(ok) ==
  /\ mode = "ws" /\ stops.pc = "rest"
  /\ stops' = [stops EXCEPT !.pc = "done", !.ended = @ \cup ({svc.sessionId} \ {0})]
  /\ svc' = Disconnect(Fresh(svc))
  /\ UNCHANGED <<starts, sseVars, otherVars>>

\* cancelSession is called and runs to its end.
CancelSession ==
  /\ mode = "ws" /\ stops.calls < MaxStops
  /\ stops' = [stops EXCEPT !.calls = @ + 1, !.ended = @ \cup ({svc.sessionId} \ {0})]
  /\ svc' = Disconnect(IF svc.websocket # 0
                        THEN Send(Fresh(svc), svc.websocket, "cancel_session")
                        ELSE Fresh(svc))
  /\ UNCHANGED <<starts, sseVars, otherVars>>

\* sendMessage is called and runs to its end.
SendMessageCall ==
  /\ mode \in WsModes
  /\ svc' = SendMessage(Fresh(svc))
  /\ UNCHANGED <<starts, stops, sseVars, otherVars>>

\* A timer of startHeartbeat fires.
HeartbeatFires ==
  /\ mode \in WsModes /\ svc.intervals > 0
  /\ svc' = OnHeartbeat(Fresh(svc))
  /\ UNCHANGED <<starts, stops, sseVars, otherVars>>

WsNext ==
  \/ \E c \in StartCalls : StartSessionCall(c)
  \/ \E c \in StartCalls : HandshakeResolve(c)
  \/ \E c \in StartCalls : HandshakeFail(c)
  \/ \E k \in Sockets : SocketOpens(k)
  \/ \E k \in Sockets : SocketFails(k)
  \/ \E k \in Sockets, code \in {NormalClosure, AbnormalClosure} : SocketCloses(k, code)
  \/ \E k \in Sockets : CloseCompletes(k)
  \/ \E k \in Sockets : ConnectTimeout(k)
  \/ \E i \in 1..MaxSockets : ReconnectFires(i)
  \/ StopSessionCall
  \/ \E ok \in BOOLEAN : StopRestSettles(ok)
  \/ CancelSession
  \/ SendMessageCall
  \/ HeartbeatFires

\* Both kinds of run.
WsSpec == WsInit /\ [][WsNext]_vars

\* The runs in which no session is stopped and no two startSession calls
\* overlap: the calls, the sockets they and the reconnect timers create, and
\* what the network does to them.
ReconnectInit == WsInit /\ mode = "reconnect"

ReconnectNext ==
  \/ \E c \in StartCalls : StartSessionCall(c)
  \/ \E c \in StartCalls : HandshakeResolve(c)
  \/ \E c \in StartCalls : HandshakeFail(c)
  \/ \E k \in Sockets : SocketOpens(k)
  \/ \E k \in Sockets : SocketFails(k)
  \/ \E k \in Sockets, code \in {NormalClosure, AbnormalClosure} : SocketCloses(k, code)
  \/ \E k \in Sockets : CloseCompletes(k)
  \/ \E k \in Sockets : ConnectTimeout(k)
  \/ \E i \in 1..MaxSockets : ReconnectFires(i)
  \/ SendMessageCall
  \/ HeartbeatFires

ReconnectSpec == ReconnectInit /\ [][ReconnectNext]_vars

----------------------------------------------------------------------------
(* StreamingService: its listeners and the messages of an open socket *)

\* The SSE classes, the codec and the connection of the service at rest.
SseRest ==
  /\ wire = EmptyLine
  /\ decoded = NotDecoded
  /\ encoded = NotEncoded
  /\ now = 0
  /\ script = [r \in Readers |-> NoScript]
  /\ bodyPos = [r \in Readers |-> 0]
  /\ bodyErr = [r \in Readers |-> FALSE]
  /\ cbMaxRetries = DefaultMaxRetries
  /\ aborted = FALSE
  /\ sc = [pc |-> "ws", attempt |-> 1, firstError |-> NoError, outcome |-> Pending]
  /\ fetch = [r \in Readers |-> "none"]
  /\ listener = [r \in Readers |-> FALSE]
  /\ rd = [r \in Readers |-> NoReader]
  /\ activeStreams = [i \in Ids |-> 0]
  /\ streamId = [r \in Readers |-> -1]
  /\ autoDone = [r \in Readers |-> FALSE]
  /\ chunkLog = <<>>
  /\ statusLog = <<>>
  /\ errLog = <<>>
  /\ cancelCalls = [r \in Readers |-> 0]
  /\ gapRead = FALSE
  /\ abortedAt = 0
  /\ cancelledLive = [r \in Readers |-> FALSE]
  /\ silent = [r \in Readers |-> FALSE]

WsRest ==
  /\ svc = NewService
  /\ starts = [c \in StartCalls |-> NoCall]
  /\ stops = NoStop

wsVars == <<svc, starts, stops>>

DispatchInit ==
  /\ mode = "dispatch"
  /\ hub \in {[NewHub EXCEPT !.behaviour = b] : b \in [Listeners -> Behaviours]}
  /\ SseRest /\ WsRest
  /\ models = NoModels
  /\ auth = NoAuth

\* The step begins: no callback invoked yet.
FreshHub == [hub EXCEPT !.calls = <<>>, !.handled = "none"]

Registrations(h) ==
  LET RECURSIVE Sum(_)
      Sum(E) == IF E = {} THEN 0
                ELSE LET e == CHOOSE x \in E : TRUE
                     IN Len(h.eventListeners[e]) + Sum(E \ {e})
  IN Sum(EventNames)

\* on(e, callback l) is called.
OnCall(e, l) ==
  /\ mode = "dispatch" /\ Registrations(hub) < MaxRegistrations
  /\ hub' = On(FreshHub, e, l)
  /\ UNCHANGED <<sseVars, wsVars, models, auth>>

\* off(e, callback l) and off(e) are called from outside a callback.
OffCall(e, l) ==
  /\ mode = "dispatch" /\ hub.eventListeners[e] # <<>>
  /\ hub' = Off(FreshHub, e, l)
  /\ UNCHANGED <<sseVars, wsVars, models, auth>>

OffAllCall(e) ==
  /\ mode = "dispatch" /\ hub.eventListeners[e] # <<>>
  /\ hub' = OffAll(FreshHub, e)
  /\ UNCHANGED <<sseVars, wsVars, models, auth>>

\* websocket.onmessage with a text that parses to a message of the type.
SocketMessage(type) ==
  /\ mode = "dispatch"
  /\ hub' = [HandleMessage(FreshHub, type) EXCEPT !.handled = type]
  /\ UNCHANGED <<sseVars, wsVars, models, auth>>

\* websocket.onmessage with a text that JSON.parse rejects.
SocketGarbage ==
  /\ mode = "dispatch"
  /\ hub' = [FreshHub EXCEPT !.handled = "unparsable"]
  /\ UNCHANGED <<sseVars, wsVars, models, auth>>

DispatchNext ==
  \/ \E e \in EventNames, l \in Listeners : OnCall(e, l)
  \/ \E e \in EventNames, l \in Listeners : OffCall(e, l)
  \/ \E e \in EventNames : OffAllCall(e)
  \/ \E type \in MessageTypes : SocketMessage(type)
  \/ SocketGarbage

DispatchSpec == DispatchInit /\ [][DispatchNext]_vars

----------------------------------------------------------------------------
(* fetchModels: the calls and the answers of the server *)

ModelsInit ==
  /\ mode = "models"
  /\ models \in {NewModels(base) : base \in BaseUrls}
  /\ hub = NewHub
  /\ auth = NoAuth
  /\ SseRest /\ WsRest

\* The c-th call of fetchModels is made.
FetchModelsCall(c, provider, dynamic, forceRefresh) ==
  /\ mode = "models" /\ models.call[c].pc = "idle"
  /\ \A b \in 1..(c - 1) : models.call[b].pc # "idle"
  /\ models' = FetchModels(models, c, provider, dynamic, forceRefresh)
  /\ UNCHANGED <<sseVars, wsVars, hub, auth>>

\* An authFetch that the fetch of call p awaits settles.
ResponseArrives(p, endpoint, outcome) ==
  /\ mode = "models" /\ models.promise[p].state = "pending"
  /\ endpoint \in models.promise[p].waiting
  /\ models' = OnResponse(models, p, endpoint, outcome)
  /\ UNCHANGED <<sseVars, wsVars, hub, auth>>

\* CACHE_TTL_MS pass since the entry of key k was written.
CacheExpires(k) ==
  /\ mode = "models" /\ models.modelsCache[k] = "fresh"
  /\ models' = [models EXCEPT !.modelsCache[k] = "expired"]
  /\ UNCHANGED <<sseVars, wsVars, hub, auth>>

ModelsNext ==
  \/ \E c \in FetchCalls, provider \in Providers, dynamic, forceRefresh \in BOOLEAN :
        FetchModelsCall(c, provider, dynamic, forceRefresh)
  \/ \E p \in FetchCalls, endpoint \in {"local", "all", "dynamic", "static"},
          outcome \in {"models", "other", "error"} : ResponseArrives(p, endpoint, outcome)
  \/ \E k \in CacheKeys : CacheExpires(k)

ModelsSpec == ModelsInit /\ [][ModelsNext]_vars

----------------------------------------------------------------------------
(* The auth store: the calls and the answers of the server *)

AuthInit ==
  /\ mode = "auth"
  /\ auth \in {NewAuth(b) : b \in BOOLEAN}
  /\ hub = NewHub
  /\ models = NoModels
  /\ SseRest /\ WsRest

\* login, logout or refreshAccessToken is called, the latter also by the
\* refresh timer.
AuthCall(url) ==
  /\ mode = "auth" /\ Len(auth.req) < MaxRequests
  /\ auth' = AuthAxiosPost(auth, url, "caller", 0)
  /\ UNCHANGED <<sseVars, wsVars, hub, models>>

\* The server answers request q.
Answer(q, status) ==
  /\ mode = "auth" /\ q \in 1..Len(auth.req)
  /\ auth.req[q].pc \in {"sent", "resent"}
  /\ Len(Interceptor(auth, q, status).req) <= MaxRequests
  /\ auth' = Interceptor(auth, q, status)
  /\ UNCHANGED <<sseVars, wsVars, hub, models>>

\* The server answers the refresh posted for request q.
RefreshAnswer(q, ok) ==
  /\ mode = "auth" /\ q \in 1..Len(auth.req)
  /\ auth.req[q].pc = "refreshing"
  /\ Len(AfterRefresh(auth, q, ok).req) <= MaxRequests
  /\ auth' = AfterRefresh(auth, q, ok)
  /\ UNCHANGED <<sseVars, wsVars, hub, models>>

AuthNext ==
  \/ \E url \in AuthUrls : AuthCall(url)
  \/ \E q \in 1..MaxRequests, status \in AuthStatuses : Answer(q, status)
  \/ \E q \in 1..MaxRequests, ok \in BOOLEAN : RefreshAnswer(q, ok)

AuthSpec == AuthInit /\ [][AuthNext]_vars

----------------------------------------------------------------------------
(* Vocabulary of the properties *)

RECURSIVE Flatten(_)
Flatten(dl) == IF dl = <<>> THEN <<>> ELSE Head(dl) \o Flatten(Tail(dl))

IsLine(t) == t # NL

\* The text the server sends on the body of response r, and its lines.
Text(r) == Join(Flatten(script[r].dl))

Lines(r) == SelectSeq(Text(r), IsLine)

RECURSIVE Framed(_)
Framed(lines) ==
  IF lines = <<>> THEN <<>> ELSE <<Head(lines), NL, NL>> \o Framed(Tail(lines))

\* The body of response r is a sequence of complete frames and then ends.
WellFramed(r) ==
  script[r].end = "close" /\ Text(r) = Framed(Lines(r))

ChunkLines == {"Ca", "Cb", "C0"}
StatusLines == {"Sm"}

IsChunkLine(l) == l \in ChunkLines
IsStatusLine(l) == l \in StatusLines

RECURSIVE ContentsOf(_)
ContentsOf(lines) ==
  IF lines = <<>> THEN <<>>
  ELSE <<JSONParse[Head(lines)].content>> \o ContentsOf(Tail(lines))

RECURSIVE MessagesOf(_)
MessagesOf(lines) ==
  IF lines = <<>> THEN <<>>
  ELSE <<JSONParse[Head(lines)].message>> \o MessagesOf(Tail(lines))

\* The contents c1..cN of the chunk frames of response r, and c1 + ... + cN.
ChunkContents(r) == ContentsOf(SelectSeq(Lines(r), IsChunkLine))
StatusMessages(r) == MessagesOf(SelectSeq(Lines(r), IsStatusLine))
Aggregate(r) == Flatten(ChunkContents(r))

RECURSIVE ArgsOf(_, _)
ArgsOf(log, r) ==
  IF log = <<>> THEN <<>>
  ELSE (IF Head(log).r = r THEN <<Head(log).arg>> ELSE <<>>) \o ArgsOf(Tail(log), r)

RECURSIVE CancelledReports(_, _)
CancelledReports(log, r) ==
  IF log = <<>> THEN 0
  ELSE (IF Head(log).r = r /\ Head(log).type = "CANCELLED" THEN 1 ELSE 0)
       + CancelledReports(Tail(log), r)

HasEntry(r) == \E i \in Ids : activeStreams[i] = r
Caller(r) == rd[r].dr["caller"]
Auto(r) == rd[r].dr["auto"]
Terminal(type) == type \in {"complete", "error"}

----------------------------------------------------------------------------
(* C1: when streamChat opens a stream successfully and the body delivers   *)
(* chunk events c1..cn and then ends, streamChat resolves with c1+...+cn   *)
(* and onChunk is invoked exactly once per chunk event, in arrival order.  *)
C1_StreamChatResolvesWithChunks ==
  (/\ mode = "facade" /\ sc.pc = "done"
   /\ fetch[1] = "ok" /\ WellFramed(1)
   /\ Lines(1) # <<>>
   /\ \A i \in 1..Len(Lines(1)) : Lines(1)[i] \in {"Ca", "Cb", "K"}
   /\ ~aborted /\ TotalCancels = 0)
  => /\ sc.outcome = Resolved(Aggregate(1))
     /\ ArgsOf(chunkLog, 1) = ChunkContents(1)

(* C2: readToCompletion, the only consumer of a body that delivers N chunk *)
(* frames with contents c1..cN (status frames in between), then a complete *)
(* frame, then ends, returns c1+...+cN, and calls onChunk with c1..cN and  *)
(* onStatus with the status messages, in arrival order.                    *)
C2Body ==
  /\ mode = "reader" /\ WellFramed(1) /\ Lines(1) # <<>>
  /\ Lines(1)[Len(Lines(1))] = "K"
  /\ \A i \in 1..(Len(Lines(1)) - 1) : Lines(1)[i] \in ChunkLines \cup StatusLines

C2_DrainReturnsConcatenation ==
  (C2Body /\ sc.pc = "done" /\ TotalCancels = 0)
  => /\ sc.outcome = Resolved(Aggregate(1))
     /\ ArgsOf(chunkLog, 1) = ChunkContents(1)
     /\ ArgsOf(statusLog, 1) = StatusMessages(1)

\* The same with the empty content left out: the part of C2 the code keeps.
C2_NonEmptyContents ==
  (C2Body /\ sc.pc = "done" /\ TotalCancels = 0
   /\ \A i \in 1..Len(Lines(1)) : Lines(1)[i] # "C0")
  => /\ sc.outcome = Resolved(Aggregate(1))
     /\ ArgsOf(chunkLog, 1) = ChunkContents(1)
     /\ ArgsOf(statusLog, 1) = StatusMessages(1)

(* C3: given a recoverable error on the first attempt of streamChat: if    *)
(* the retry succeeds, streamChat resolves with the retry's aggregate; if  *)
(* the retry fails too, streamChat rejects with the first attempt's error. *)
RetryHealthy ==
  /\ mode = "facade" /\ sc.attempt = 2 /\ fetch[2] = "ok"
  /\ WellFramed(2) /\ Lines(2) # <<>>
  /\ \A i \in 1..Len(Lines(2)) : Lines(2)[i] \in {"Ca", "Cb", "K"}
  /\ ~aborted /\ TotalCancels = 0

C3_RetryOutcome ==
  (mode = "facade" /\ sc.pc = "done" /\ sc.attempt = 2)
  => /\ RetryHealthy => sc.outcome = Resolved(Aggregate(2))
     /\ Caller(2).pc = "done" => sc.outcome = Resolved(Caller(2).full)
     /\ (fetch[2] = "failed" \/ Caller(2).pc = "failed")
          => /\ sc.outcome.kind = "rejected"
             /\ sc.outcome.err = sc.firstError
             /\ sc.outcome.err.origin = 1

\* The half of C3 about a retry that fails.
C3_FailedRetrySurfacesFirstError ==
  (mode = "facade" /\ sc.pc = "done" /\ sc.attempt = 2)
  => /\ sc.outcome.kind = "rejected"
     /\ sc.outcome.err = sc.firstError
     /\ sc.outcome.err.origin = 1

(* C4: a streamChat call makes at most two transport attempts; the second  *)
(* is made exactly when the first failed with a recoverable StreamError    *)
(* that is not CANCELLED; it runs with maxRetries = 0; a failure of the    *)
(* second attempt ends the call.                                           *)
AttemptFailed(r) == fetch[r] = "failed" \/ Caller(r).pc = "failed"

C4_RetryPolicy ==
  mode = "facade"
  => /\ fetch[2] # "none"
          => /\ AttemptFailed(1)
             /\ sc.firstError.origin = 1
             /\ sc.firstError.recoverable /\ sc.firstError.type # "CANCELLED"
     /\ (sc.pc = "done" /\ fetch[2] = "none" /\ sc.outcome.kind = "rejected")
          => ~(sc.outcome.err.recoverable /\ sc.outcome.err.type # "CANCELLED")
     /\ rd[2].created => rd[2].maxRetries = 0
     /\ (sc.attempt = 2 /\ AttemptFailed(2)) => sc.pc \in {"drain", "done"}
     /\ (sc.attempt = 2 /\ fetch[2] = "failed") => sc.pc = "done"
     /\ sc.pc = "done" => \A r \in Readers : fetch[r] # "pending"

C4_Witness ==
  /\ mode = "facade" /\ sc.pc = "done" /\ sc.attempt = 2
  /\ fetch[2] = "ok" /\ Caller(2).pc = "failed"
  /\ sc.firstError.type = "TIMEOUT"

(* C5: if the stream streamChat is draining is cancelled, also while a     *)
(* read of the body is pending, the error its readToCompletion rejects     *)
(* with, which is the error that reaches streamChat, is CANCELLED with     *)
(* recoverable = FALSE, and streamChat opens no retry.                     *)
C5_CancelReachesStreamChat ==
  \A r \in Readers :
    (cancelledLive[r] /\ Caller(r).pc = "failed")
    => /\ Caller(r).err.type = "CANCELLED"
       /\ ~Caller(r).err.recoverable
       /\ ~RetryCondition(Caller(r).err)
       /\ r = 1 => fetch[2] = "none"

(* C6: for a stream registered by createStream, cancel() on its reader     *)
(* before the stream is terminal results in exactly one CANCELLED error    *)
(* reported to onError and in the removal of the stream's entry: the       *)
(* auto-cleanup drain no longer waits for the server, and once its         *)
(* finally has run no entry of the stream is left.                         *)
C6_CancelReportedOnceAndUnregistered ==
  \A r \in Readers :
    (mode = "facade" /\ rd[r].created /\ cancelCalls[r] = 1)
    => /\ CancelledReports(errLog, r) = 1
       /\ Auto(r).pc # "read"
       /\ autoDone[r] => ~HasEntry(r)

C6_Witness ==
  /\ mode = "facade" /\ cancelCalls[1] = 1 /\ cancelCalls[2] = 0
  /\ Auto(1).pc = "failed" /\ Auto(1).err.type = "CANCELLED"
  /\ autoDone[1] /\ ~HasEntry(1)
  /\ CancelledReports(errLog, 1) = 1

(* C7: a second cancel() on a reader, and a cancel() after the stream has  *)
(* completed, are no-ops: no error reported to onError, no state changed.  *)
Completed(r) == \E d \in Drains : rd[r].dr[d].pc = "done"

C7_RepeatedCancelIsNoOp ==
  [][\A r \in Readers :
       (cancelCalls'[r] > cancelCalls[r] /\ (rd[r].isCancelled \/ Completed(r)))
       => (errLog' = errLog /\ rd'[r] = rd[r])]_vars

(* C8: when callbacks.signal is aborted while streamChat waits for the     *)
(* response or reads the body, the transport call is aborted, streamChat   *)
(* rejects with a CANCELLED, non-recoverable error without starting        *)
(* another transport attempt, and no registry entry of the call remains.   *)
C8_AbortCancelsStreamChat ==
  (mode = "facade" /\ abortedAt # 0)
  => /\ fetch[abortedAt] # "pending"
     /\ sc.attempt = abortedAt
     /\ sc.pc = "done"
          => /\ sc.outcome.kind = "rejected"
             /\ sc.outcome.err.type = "CANCELLED"
             /\ ~sc.outcome.err.recoverable
     /\ (sc.pc = "done" /\ \A r \in Readers : rd[r].created => autoDone[r])
          => \A r \in Readers : ~HasEntry(r)

(* C9: the event sequence readEvents produces for any frame sequence has   *)
(* exactly one terminal event (complete or error), which is the last one:  *)
(* no event is yielded or aggregated after it.                             *)
C9_OneTerminalEventLast ==
  mode = "reader"
  => LET y == Caller(1).yielded
     IN /\ \A i \in 1..(Len(y) - 1) : ~Terminal(y[i])
        /\ sc.outcome.kind = "resolved" => (y # <<>> /\ Terminal(y[Len(y)]))

(* C10: from the start of the transport-level open of a stream until the   *)
(* stream is terminal (completed, cancelled, failed) it has an entry in    *)
(* activeStreams, and no terminal stream still has an entry.               *)
StreamTerminal(r) ==
  rd[r].created /\ (rd[r].isCancelled \/ Auto(r).pc \in {"done", "failed"})

C10_RegistryMembership ==
  mode = "facade"
  => \A r \in Readers :
       /\ (fetch[r] = "pending" \/ (fetch[r] = "ok" /\ ~StreamTerminal(r))) => HasEntry(r)
       /\ (StreamTerminal(r) /\ autoDone[r]) => ~HasEntry(r)

(* C11: every stream registered in activeStreams is eventually removed     *)
(* once its body ends, its read fails, an error event arrives or it is     *)
(* cancelled, whether or not the caller's drain saw the terminal event.    *)
(* Under LiveSpec every body ends or fails, so: a stream that has an entry *)
(* eventually has none.                                                    *)
C11_EntryEventuallyRemoved ==
  \A r \in Readers : HasEntry(r) ~> ~HasEntry(r)

\* The entry of a stream is gone although streamChat's drain failed on the
\* locked body and never saw the end of the stream.
C11_Witness ==
  /\ mode = "facade" /\ streamId[1] # -1 /\ autoDone[1] /\ ~HasEntry(1)
  /\ Caller(1).pc = "failed" /\ Caller(1).yielded = <<>>
  /\ Auto(1).pc = "done" /\ cancelCalls[1] = 0 /\ ~aborted

(* C12: every stream opened by createStream gets a registry id different   *)
(* from the id of every other currently registered stream, so that         *)
(* getActiveStreamCount() is the number of open streams, also when two     *)
(* streams are opened on the same URL at the same Date.now().              *)
OpenStream(r) == rd[r].created /\ ~StreamTerminal(r)

C12_DistinctIdsOfOpenStreams ==
  (mode = "manager" /\ OpenStream(1) /\ OpenStream(2))
  => /\ streamId[1] # streamId[2]
     /\ GetActiveStreamCount = 2

(* C13: cancelAll() calls cancel() on every reader tracked at the time of  *)
(* the call, and on no other, and leaves the registry empty: right after   *)
(* it getActiveStreamCount() = 0 and getActiveStreamIds() is empty.        *)
C13_CancelAllEmptiesRegistry ==
  [][CancelAll =>
       /\ GetActiveStreamCount' = 0
       /\ GetActiveStreamIds' = {}
       /\ \A r \in Readers :
            IF r \in Tracked
            THEN /\ rd'[r].isCancelled /\ ~rd'[r].reader /\ ~rd'[r].heartbeatInterval
                 /\ cancelCalls'[r] = cancelCalls[r] + 1
                 /\ CancelledReports(errLog', r) = CancelledReports(errLog, r) + 1
            ELSE /\ rd'[r] = rd[r] /\ cancelCalls'[r] = cancelCalls[r]
                 /\ CancelledReports(errLog', r) = CancelledReports(errLog, r)]_vars

\* Two open streams with different ids were cancelled by one cancelAll():
\* their entries are gone before the finally of either has run.
C13_Witness ==
  /\ mode = "manager" /\ streamId[1] # -1 /\ streamId[2] # -1
  /\ streamId[1] # streamId[2]
  /\ ~autoDone[1] /\ ~autoDone[2]
  /\ cancelCalls[1] = 1 /\ cancelCalls[2] = 1
  /\ rd[1].isCancelled /\ rd[2].isCancelled
  /\ GetActiveStreamCount = 0

(* C14: every streamChat call ends; when the server stops sending bytes    *)
(* without closing the body, the call ends with a TIMEOUT error that is    *)
(* recoverable.                                                            *)
\* The response of attempt r arrived and none of the deliveries that the
\* server had still to send on its body did.
Stalled(r) ==
  /\ fetch[r] = "ok" /\ script[r].dl # <<>> /\ bodyPos[r] = 0 /\ ~bodyErr[r]

C14_StalledBodyEndsWithTimeout ==
  (mode = "facade" /\ sc.pc = "done" /\ Stalled(sc.attempt)
   /\ ~aborted /\ TotalCancels = 0)
  => /\ sc.outcome.kind = "rejected"
     /\ sc.outcome.err.type = "TIMEOUT"
     /\ sc.outcome.err.recoverable

(* C15: when the time since the last received byte exceeds the timeout,    *)
(* the heartbeat reports a TIMEOUT error with recoverable = TRUE to        *)
(* onError and changes nothing else: the read loop goes on, the reader is  *)
(* neither cancelled nor unregistered, and the frames that arrive later    *)
(* are delivered (a drain of complete frames with non-empty contents that  *)
(* nobody cancels returns their concatenation, heartbeat or not).          *)
C15_DrainUnaffected ==
  (/\ mode = "reader" /\ sc.pc = "done" /\ TotalCancels = 0
   /\ WellFramed(1)
   /\ \A i \in 1..Len(Lines(1)) : Lines(1)[i] \in {"Ca", "Cb", "Sm", "K", "Md"})
  => /\ sc.outcome = Resolved(Aggregate(1))
     /\ ArgsOf(chunkLog, 1) = ChunkContents(1)
     /\ ArgsOf(statusLog, 1) = StatusMessages(1)

C15_HeartbeatOnlyReports ==
  /\ []C15_DrainUnaffected
  /\ [][\A r \in Readers :
          Heartbeat(r) =>
            /\ errLog' = Append(errLog, [type |-> "TIMEOUT", recoverable |-> TRUE, r |-> r])
            /\ UNCHANGED <<rd, activeStreams, streamId, autoDone, sc, fetch, bodyPos,
                           bodyErr, chunkLog, statusLog, cancelCalls, silent>>]_vars

\* The heartbeat reported a timeout, a delivery arrived after the silence,
\* and the drain returned all the chunks.
C15_Witness ==
  /\ mode = "reader" /\ sc.pc = "done" /\ TotalCancels = 0
  /\ TimeoutReports(errLog, 1) = 1 /\ ~silent[1]
  /\ WellFramed(1) /\ Lines(1) = <<"Ca", "Cb">>
  /\ sc.outcome = Resolved(<<"a", "b">>)
  /\ ~rd[1].isCancelled

(* C16: on every exit path of a stream the lock on the body is released    *)
(* and the liveness timer is cleared exactly once; releasing again         *)
(* (cancel() and then the finally of the generator, or a second drain      *)
(* running on the same reader) has no effect, and no timer of a            *)
(* terminated stream stays armed.                                          *)
\* Every drain that was started on reader r has ended.
DrainsEnded(r) ==
  /\ rd[r].created
  /\ \A d \in Drains : rd[r].dr[d].pc \in {"idle", "done", "failed"}
  /\ \E d \in Drains : rd[r].dr[d].pc \in {"done", "failed"}

\* The part of C16 about the exits of a stream and about a repeated release.
C16_ReleasedOnExit ==
  \A r \in Readers :
    /\ rd[r].timers = (IF rd[r].heartbeatInterval THEN 1 ELSE 0)
    /\ rd[r].heartbeatInterval => rd[r].reader
    /\ DrainsEnded(r) => (~rd[r].reader /\ rd[r].timers = 0)
    /\ rd[r].isCancelled => (\A d \in Drains : rd[r].dr[d].pc # "read")
    /\ Cleanup(Cleanup(rd[r])) = Cleanup(rd[r])

\* The part of C16 about a second drain: its start on a reader whose first
\* drain is waiting for the server does not touch that drain or its timer.
C16_SecondDrainHarmless ==
  [][\A r \in Readers :
       (Caller(r).pc = "idle" /\ Caller(r)' # Caller(r) /\ Auto(r).pc = "read")
       => (Auto(r)' = Auto(r) /\ rd'[r].timers = rd[r].timers)]_vars

\* C16 as a whole: release on every exit, a repeated release without effect,
\* and a second drain that leaves the first alone.
C16_ReleaseOnceAndIdempotent ==
  []C16_ReleasedOnExit /\ C16_SecondDrainHarmless

----------------------------------------------------------------------------
(* C17 (refinement).  However the network cuts the text of the body into   *)
(* deliveries (inside a line, between a line and its delimiter, between    *)
(* the two newlines of the delimiter), the reader yields the events that   *)
(* parsing the whole text in one delivery yields: after n deliveries the   *)
(* buffer holds what parsing the first n deliveries as one text leaves     *)
(* over, each delivery yields exactly the events that its text adds to     *)
(* those of the text before it, and a drain that reaches the end of the    *)
(* body has yielded the events of the whole text, then the end event.      *)

\* The text of the first n deliveries of body r.
Received(r, n) == Join(Flatten(SubSeq(script[r].dl, 1, n)))

TypesOf(events) == [i \in 1..Len(events) |-> events[i].type]

\* The events that the step hands to the drain that was waiting in read().
Emitted(r) ==
  LET d == CHOOSE x \in Drains : rd[r].dr[x].pc = "read"
  IN IF rd'[r].dr[d].pc = "yield" THEN rd'[r].dr[d].batch ELSE <<>>

C17_BufferIsLeftover ==
  \A r \in Readers :
    /\ rd[r].created => rd[r].buffer = ParseBuffer(Received(r, bodyPos[r])).buffer
    /\ (mode = "reader" /\ r = 1 /\ Caller(r).pc = "done")
         => Caller(r).yielded = TypesOf(ParseBuffer(Text(r)).events) \o <<"complete">>

C17_DeliveryAddsItsEvents ==
  [][\A r \in Readers :
       bodyPos'[r] = bodyPos[r] + 1
       => ParseBuffer(Received(r, bodyPos[r])).events \o Emitted(r)
            = ParseBuffer(Received(r, bodyPos'[r])).events]_vars

C17_SplitInvariance == []C17_BufferIsLeftover /\ C17_DeliveryAddsItsEvents

\* A body cut inside the line Ca or inside a delimiter, drained to its end.
C17_Witness ==
  /\ mode = "reader" /\ Len(script[1].dl) = 2
  /\ LET first == script[1].dl[1]
     IN \/ first[Len(first)] = "CaL"
        \/ first[Len(first)] = NL /\ script[1].dl[2][1] = NL /\ Len(first) \in {2, 5}
  /\ Caller(1).pc = "done"
  /\ Len(Caller(1).yielded) >= 3

----------------------------------------------------------------------------
(* C18 (error handling).  A frame whose payload is not JSON, between two   *)
(* valid frames, does not end the stream: the drain does not fail on it,   *)
(* the frame is yielded as a chunk, and the frames around it are yielded   *)
(* as they are without it.                                                  *)
(*   As stated: the content of that chunk is the raw line.                 *)
(*   As amended: the content of that chunk is the text of the line after   *)
(*   its "data: " prefix.                                                   *)

Malformed == {l \in PrefixedLines : ~JSONParse[l].ok}
ValidChunks == {l \in PrefixedLines : JSONParse[l].ok /\ JSONParse[l].type = "chunk"
                                        /\ JSONParse[l].content # <<>>}

\* Body 1 is a valid chunk frame, a malformed frame, a valid chunk frame.
MalformedBetween(r) ==
  /\ WellFramed(r) /\ Len(Lines(r)) = 3
  /\ Lines(r)[1] \in ValidChunks /\ Lines(r)[2] \in Malformed /\ Lines(r)[3] \in ValidChunks

\* The drain of such a body, never cancelled, with the malformed frame's
\* chunk carrying content c.
DegradedTo(c) ==
  LET l == Lines(1)
  IN /\ Caller(1).pc = "failed" => script[1].end = "error"
     /\ Caller(1).pc = "done" =>
          /\ Caller(1).yielded = <<"chunk", "chunk", "chunk", "complete">>
          /\ ArgsOf(chunkLog, 1) = <<JSONParse[l[1]].content, c, JSONParse[l[3]].content>>

----------------------------------------------------------------------------
(* C19 (functional).  The exported parseSSELine on a line "data: <payload>":*)
(* when the payload is a JSON object with the fields type and data, the    *)
(* event has that type and that data; when the payload is not JSON, the    *)
(* event is a chunk whose data.content is the text after the prefix.       *)

\* The object in the line's payload has the fields type and data.
HasTypeAndData ==
  /\ wire.prefix /\ JSONParseText(wire.payload).ok
  /\ JSONParseText(wire.payload).value.type # Undefined
  /\ JSONParseText(wire.payload).value.data # Undefined

C19_ExportedParse ==
  decoded.by = "parseSSELine" =>
    /\ HasTypeAndData =>
          /\ decoded.event.type = JSONParseText(wire.payload).value.type
          /\ decoded.event.data = JSONParseText(wire.payload).value.data
    /\ (wire.prefix /\ ~JSONParseText(wire.payload).ok) =>
          /\ decoded.event.type = Str("chunk")
          /\ decoded.event.data = Content(wire.payload.v)

\* What holds of C19: the two cases of the repository's tests, and every
\* payload whose data is an object.
C19_TestedCases ==
  decoded.by = "parseSSELine" =>
    /\ (HasTypeAndData /\ JSONParseText(wire.payload).value.data.js = "object") =>
          /\ decoded.event.type = JSONParseText(wire.payload).value.type
          /\ decoded.event.data = JSONParseText(wire.payload).value.data
    /\ wire = DataLine(Plain("Hello World")) =>
          decoded.event.type = Str("chunk") /\ decoded.event.data.content = "Hello World"

----------------------------------------------------------------------------
(* C20 (round trip).  A frame whose payload is a JSON object with a type   *)
(* of the five event types and a data field, decoded by either parser and  *)
(* encoded again with createSSEEvent, is a frame with the same type, data, *)
(* id and timestamp, whatever the value of data.                           *)

WellFormedFrame ==
  /\ wire.prefix /\ JSONParseText(wire.payload).ok
  /\ JSONParseText(wire.payload).value.type \in {Str(t) : t \in SSEEventTypes}
  /\ JSONParseText(wire.payload).value.data # Undefined

SameFields(a, b) ==
  a.type = b.type /\ a.data = b.data /\ a.id = b.id /\ a.timestamp = b.timestamp

C20_DecodeEncodeRoundTrip ==
  (WellFormedFrame /\ encoded # NotEncoded) =>
    /\ encoded.delimiter = <<NL, NL>> /\ encoded.line.prefix
    /\ SameFields(JSONParseText(encoded.line.payload).value, JSONParseText(wire.payload).value)

\* What holds of C20: the reader's parser gives the frame back when data is
\* an object and the frame carries a timestamp.
C20_ReaderRoundTripOnFullFrames ==
  (/\ WellFormedFrame /\ encoded # NotEncoded /\ decoded.by = "SSEStreamReader"
   /\ JSONParseText(wire.payload).value.data.js = "object"
   /\ JSONParseText(wire.payload).value.timestamp # Undefined)
  => SameFields(JSONParseText(encoded.line.payload).value, JSONParseText(wire.payload).value)

----------------------------------------------------------------------------
(* C21 (error handling).  createStream on the response of its fetch: a     *)
(* status that is not a success registers no reader and rejects with a     *)
(* StreamError that is SERVER for a status of 500 or more and NETWORK      *)
(* otherwise, recoverable unless the status is 401 or 403; a success       *)
(* status registers the new reader and returns it.                         *)

\* The rejection of the first createStream as streamChat's catch receives it.
RejectedWith(status) ==
  /\ sc'.firstError.type = (IF status >= 500 THEN "SERVER" ELSE "NETWORK")
  /\ sc'.firstError.recoverable = (status \notin {401, 403})
  /\ sc'.pc = (IF status \in {401, 403} THEN "done" ELSE "fetch")

\* The effect of a response of the given status on the registry and on
\* reader r, registered under id t.
Opened(r, status, t) ==
  IF status >= 200 /\ status <= 299
  THEN /\ ~rd[r].created /\ rd'[r].created
       /\ activeStreams'[t] = r /\ streamId'[r] = t
       /\ \A i \in Ids \ {t} : activeStreams'[i] = activeStreams[i]
  ELSE /\ activeStreams' = activeStreams
       /\ ~rd'[r].created /\ streamId'[r] = -1

C21_OpenClassifiesStatus ==
  [][\A r \in Readers, status \in Statuses :
       /\ FetchResolve(r, status) =>
            /\ Opened(r, status, now)
            /\ (status \notin 200..299 /\ r = 1) => RejectedWith(status)
            /\ (status \in 200..299) => sc'.pc = "gap"
       /\ \A t \in Ids : CreateStreamResolve(r, status, t) => Opened(r, status, t)]_vars

\* A 401 or 403 was answered: streamChat rejected at once, nothing registered.
C21_Witness ==
  /\ mode = "facade" /\ fetch[1] = "failed" /\ sc.pc = "done"
  /\ sc.firstError = StreamError("NETWORK", FALSE, 1)
  /\ ~HasEntry(1) /\ ~rd[1].created

----------------------------------------------------------------------------
(* C22 (error handling).  readToCompletion raises on an error event: the   *)
(* drain stops at that event by throwing a StreamError that is not         *)
(* recoverable, which streamChat does not retry, and no onChunk or         *)
(* onStatus call is made for the frames that follow the error event.       *)

\* Drain d of reader r has received an error event.
HitErrorEvent(r, d) == \E i \in 1..Len(rd[r].dr[d].yielded) : rd[r].dr[d].yielded[i] = "error"

C22_StoppedAtErrorEvent ==
  \A r \in Readers, d \in Drains :
    HitErrorEvent(r, d) =>
      LET dr == rd[r].dr[d]
      IN /\ dr.yielded[Len(dr.yielded)] = "error"
         /\ \A i \in 1..(Len(dr.yielded) - 1) : dr.yielded[i] # "error"
         /\ dr.pc = "failed" /\ dr.batch = <<>>
         /\ dr.err.type = "SERVER" /\ ~dr.err.recoverable
         /\ ~RetryCondition(dr.err)

C22_NoCallbackAfterErrorEvent ==
  [][\A r \in Readers :
       (\E d \in Drains : HitErrorEvent(r, d))
       => /\ ArgsOf(chunkLog', r) = ArgsOf(chunkLog, r)
          /\ ArgsOf(statusLog', r) = ArgsOf(statusLog, r)]_vars

C22_ErrorEventRaises == []C22_StoppedAtErrorEvent /\ C22_NoCallbackAfterErrorEvent

\* The error event arrived in one delivery with a status frame before it and
\* a chunk frame after it; the body has ended since.
C22_Witness ==
  /\ mode = "reader" /\ Lines(1) = <<"Sm", "Ex", "Ca">>
  /\ HitErrorEvent(1, "caller")
  /\ ArgsOf(statusLog, 1) = << <<"m">> >> /\ chunkLog = <<>>

----------------------------------------------------------------------------
(* C23 (error handling).  Every rejection of streamChat is a StreamError   *)
(* of one of the six categories, whichever step failed (the fetch, taking  *)
(* the reader of the body, reading the body, releasing the reader): no     *)
(* exception of the platform reaches the caller.  The same holds of every  *)
(* error a drain ends with and of the error streamChat keeps for its retry.*)

C23_RejectionsAreClassified ==
  /\ sc.outcome.kind = "rejected" => IsStreamError(sc.outcome.err)
  /\ sc.firstError # NoError => IsStreamError(sc.firstError)
  /\ \A r \in Readers, d \in Drains :
       rd[r].dr[d].pc = "failed" => IsStreamError(rd[r].dr[d].err)

\* streamChat was rejected after a response had arrived: the failure came
\* from taking the reader of the body or from reading it.
C23_Witness ==
  /\ mode = "facade" /\ sc.outcome.kind = "rejected"
  /\ fetch[1] = "ok" /\ Caller(1).pc = "failed"
  /\ sc.outcome.err.type = "NETWORK"

----------------------------------------------------------------------------
(* C24 (concurrency).  At every moment at most one WebSocket of the       *)
(* service is connecting or open, also when two startSession calls        *)
(* overlap; a connection attempt begins only when none is.                *)

\* The WebSockets of the service that are connecting or open.
Live(s) == {k \in Sockets : s.sock[k].readyState \in {"CONNECTING", "OPEN"}}

C24_AtMostOneLiveSocket == Cardinality(Live(svc)) <= 1

C24_AttemptOnlyWhenNoneLive ==
  [][\A k \in Sockets :
       (svc.sock[k].readyState = "none" /\ svc'.sock[k].readyState = "CONNECTING")
       => Live(svc) = {}]_vars

C24_OneSocketPerService == []C24_AtMostOneLiveSocket /\ C24_AttemptOnlyWhenNoneLive

----------------------------------------------------------------------------
(* C25 (temporal).  After a close with a code other than 1000 the service *)
(* schedules a reconnect attempt; at most MaxReconnectAttempts attempts   *)
(* are made in a row without an open between them; the close that exceeds *)
(* the bound yields an error of category MAX_RETRIES_EXCEEDED and leaves  *)
(* the service without a live socket and without a pending attempt.       *)

\* The step delivers the close event of socket k with a code other than 1000.
UnexpectedClose(k) ==
  \/ SocketFails(k)
  \/ SocketCloses(k, AbnormalClosure)
  \/ (CloseCompletes(k) /\ svc.sock[k].closeCode # NormalClosure)

\* An error of the category was emitted in the step, or a startSession
\* call was rejected with one.
Yielded(category) ==
  \/ \E i \in 1..Len(svc'.emitted) :
        svc'.emitted[i].type = "error" /\ svc'.emitted[i].error.type = category
  \/ \E c \in StartCalls :
        /\ starts[c].pc # "rejected" /\ starts'[c].pc = "rejected"
        /\ starts'[c].err.type = category

C25_AttemptsBounded == svc.reconnectAttempts <= MaxReconnectAttempts

C25_UnexpectedCloseSchedules ==
  [][\A k \in Sockets :
       (UnexpectedClose(k) /\ svc.reconnectAttempts < MaxReconnectAttempts)
       => /\ svc'.reconnectAttempts = svc.reconnectAttempts + 1
          /\ Len(svc'.reconnects) = Len(svc.reconnects) + 1]_vars

C25_ExhaustionReported ==
  [][\A k \in Sockets :
       (UnexpectedClose(k) /\ svc.reconnectAttempts = MaxReconnectAttempts)
       => /\ Yielded("MAX_RETRIES_EXCEEDED")
          /\ svc'.reconnects = svc.reconnects
          /\ Live(svc') = {}]_vars

C25_BoundedReconnect ==
  []C25_AttemptsBounded /\ C25_UnexpectedCloseSchedules /\ C25_ExhaustionReported

----------------------------------------------------------------------------
(* C26 (safety).  A closure that stopSession or cancelSession caused      *)
(* never triggers reconnection: the close event of a socket that          *)
(* disconnect() closed schedules no reconnect attempt, whether the socket *)
(* was connecting or open, and a reconnect timer that fires after the     *)
(* session was cleared opens no WebSocket.                                *)

C26_ClientCloseSchedulesNothing ==
  [][\A k \in Sockets :
       (CloseCompletes(k) /\ svc.sock[k].byClient)
       => /\ svc'.reconnects = svc.reconnects
          /\ svc'.reconnectAttempts = svc.reconnectAttempts]_vars

C26_NoSocketWithoutSession ==
  [][\A i \in 1..MaxSockets :
       (ReconnectFires(i) /\ svc.sessionId = 0) => Live(svc') = Live(svc)]_vars

C26_NormalClosureNeverReconnects ==
  C26_ClientCloseSchedulesNothing /\ C26_NoSocketWithoutSession

----------------------------------------------------------------------------
(* C27 (numerical).  The delay before reconnect attempt n is              *)
(* min(1000 * 2^n, 30000) ms: 2000, 4000, 8000, 16000, 30000 for          *)
(* n = 1..5; every reconnect timer the service arms waits that long.      *)

BackoffTable == <<2000, 4000, 8000, 16000, 30000>>

C27_BackoffDelays ==
  /\ \A n \in 1..Len(BackoffTable) : Delay(n) = BackoffTable[n]
  /\ \A i \in 1..Len(svc.reconnects) :
       /\ svc.reconnects[i].attempt \in 1..MaxReconnectAttempts
       /\ svc.reconnects[i].delay = BackoffTable[svc.reconnects[i].attempt]

\* The timer of the third attempt in a row is armed.
C27_Witness ==
  \E i \in 1..Len(svc.reconnects) :
    svc.reconnects[i].attempt = MaxReconnectAttempts /\ svc.reconnects[i].delay = 8000

----------------------------------------------------------------------------
(* C28 (safety).  When stopSession or cancelSession returns, websocket    *)
(* and sessionId are null, no heartbeat timer of the service is armed and *)
(* no WebSocket of the service is connecting or open, whether the stop    *)
(* request succeeded or not and whatever happened while it was awaited.   *)

\* The step in which stopSession or cancelSession returns.
StopReturns ==
  \/ \E ok \in BOOLEAN : StopRestSettles(ok)
  \/ (StopSessionCall /\ svc.sessionId = 0)
  \/ CancelSession

C28_FieldsCleared ==
  [][StopReturns => /\ svc'.websocket = 0
                    /\ svc'.sessionId = 0
                    /\ ~svc'.heartbeatInterval]_vars

C28_ConnectionClosed ==
  [][StopReturns => /\ svc'.intervals = 0
                    /\ Live(svc') = {}]_vars

C28_StopClosesAndClears == C28_FieldsCleared /\ C28_ConnectionClosed

----------------------------------------------------------------------------
(* C29 (error handling).  When the handshake request fails, startSession  *)
(* rejects with an error that is not recoverable; the failing call opens  *)
(* no WebSocket, sets no session id and schedules no reconnect, and a     *)
(* service whose calls have all failed so is as it was constructed.       *)

\* What a step may change of the service without connecting anything.
Connection(s) ==
  <<s.websocket, s.sessionId, s.isConnecting, s.reconnectAttempts, s.reconnects,
    s.heartbeatInterval, s.intervals, s.sock>>

\* The error says that the failure is recoverable.  The flag of an error of
\* the service is "undefined" when the error has no such property.
IsRecoverable(error) == error.recoverable = "true"

\* Call c was rejected before it reached connectWebSocket.
FailedAtHandshake(c) ==
  starts[c].pc = "rejected" /\ starts[c].sock = 0 /\ starts[c].err = AuthFetchError

C29_FailingCallTouchesNothing ==
  [][\A c \in StartCalls :
       (starts[c].pc = "handshake" /\ starts'[c].pc = "rejected")
       => /\ ~IsRecoverable(starts'[c].err)
          /\ Connection(svc') = Connection(svc)]_vars

C29_DisconnectedAfterFailure ==
  ((\E c \in StartCalls : FailedAtHandshake(c))
     /\ (\A c \in StartCalls : starts[c].pc = "idle" \/ FailedAtHandshake(c)))
  => /\ Connection(svc) = Connection(NewService)
     /\ \A c \in StartCalls : ~IsRecoverable(starts[c].err)

----------------------------------------------------------------------------
(* C30 (temporal).  When the connection timer of an attempt fires while   *)
(* its WebSocket is still connecting, the attempt is aborted (the socket  *)
(* is closed, its promise rejected), and the error a startSession call    *)
(* is rejected with for it is of category TIMEOUT and recoverable.        *)

\* Call c was rejected by the connection timer.
TimedOut(c) ==
  starts[c].pc = "rejected" /\ starts[c].err.message = "WebSocket connection timeout"

C30_TimeoutClassified ==
  \A c \in StartCalls :
    TimedOut(c) => (starts[c].err.type = "TIMEOUT" /\ IsRecoverable(starts[c].err))

C30_AttemptAborted ==
  [][\A k \in Sockets :
       (ConnectTimeout(k) /\ svc.sock[k].readyState = "CONNECTING")
       => /\ k \notin Live(svc')
          /\ svc'.sock[k].promise = "rejected"]_vars

C30_HandshakeTimeout == []C30_TimeoutClassified /\ C30_AttemptAborted

----------------------------------------------------------------------------
(* C31 (error handling).  sendMessage on a service whose WebSocket is     *)
(* absent or not open throws an error of category NETWORK, writes nothing *)
(* to any socket and changes no state of the service.                     *)

NotConnected(s) == s.websocket = 0 \/ s.sock[s.websocket].readyState # "OPEN"

C31_NothingSentNothingChanged ==
  [][(SendMessageCall /\ NotConnected(svc))
     => /\ svc'.thrown # NoWsError
        /\ svc'.sent = <<>>
        /\ Connection(svc') = Connection(svc)]_vars

C31_ThrownIsNetworkError ==
  [][(SendMessageCall /\ NotConnected(svc)) => svc'.thrown.type = "NETWORK"]_vars

C31_SendWithoutConnection == C31_NothingSentNothingChanged /\ C31_ThrownIsNetworkError

----------------------------------------------------------------------------
(* C32 (functional correctness).  A message that parses is delivered      *)
(* exactly once to each listener registered for 'message' and, exactly    *)
(* when its type is reasoning_step, final_answer, cancelled or error,     *)
(* exactly once to each listener of that type, the generic dispatch       *)
(* first; a listener registered n times counts as n listeners.            *)

Occurrences(arr, l) == Cardinality({i \in 1..Len(arr) : arr[i] = l})

\* The number of times the step called listener l for event e.
CallsOf(h, e, l) ==
  Cardinality({i \in 1..Len(h.calls) : h.calls[i] = [event |-> e, listener |-> l]})

\* The listeners due for event e when a message of the type arrives.
Due(h, type, e, l) ==
  IF e = "message" \/ e = type THEN Occurrences(h.eventListeners[e], l) ELSE 0

C32_NoListenerCalledTwice ==
  [][\A type \in MessageTypes :
       SocketMessage(type)
       => /\ \A e \in EventNames, l \in Listeners :
               CallsOf(hub', e, l) <= Due(hub, type, e, l)
          /\ \A i, j \in 1..Len(hub'.calls) :
               (i < j /\ hub'.calls[j].event = "message") => hub'.calls[i].event = "message"]_vars

C32_EveryListenerCalled ==
  [][\A type \in MessageTypes :
       SocketMessage(type)
       => \A e \in EventNames, l \in Listeners :
            CallsOf(hub', e, l) >= Due(hub, type, e, l)]_vars

C32_UnparsableDispatchesNothing ==
  [][SocketGarbage => hub'.calls = <<>>]_vars

C32_DispatchExactlyOnce ==
  C32_NoListenerCalledTwice /\ C32_EveryListenerCalled /\ C32_UnparsableDispatchesNothing

----------------------------------------------------------------------------
(* C33 (invariant).  At every moment at most one heartbeat timer of the   *)
(* service is armed, and none while no WebSocket of the service is open;  *)
(* a heartbeat timer that fires writes to an open socket or not at all.   *)

C33_AtMostOneTimer == svc.intervals <= 1

C33_NoTimerWhileDisconnected ==
  (\A k \in Sockets : svc.sock[k].readyState # "OPEN") => svc.intervals = 0

C33_KeepAliveOnlyWhenOpen ==
  [][HeartbeatFires
     => \A i \in 1..Len(svc'.sent) :
          /\ svc'.sent[i].action = "heartbeat"
          /\ svc.sock[svc'.sent[i].sock].readyState = "OPEN"]_vars

C33_HeartbeatInvariant ==
  [](C33_AtMostOneTimer /\ C33_NoTimerWhileDisconnected) /\ C33_KeepAliveOnlyWhenOpen

----------------------------------------------------------------------------
(* C34 (temporal).  After cancel() has returned on a reader, no onChunk   *)
(* and no onStatus callback is invoked for that reader any more, also     *)
(* when cancel() was called between two events of one delivery.           *)

C34_NoCallbackAfterCancel ==
  [][\A r \in Readers :
       (rd[r].created /\ rd[r].isCancelled)
       => /\ ArgsOf(chunkLog', r) = ArgsOf(chunkLog, r)
          /\ ArgsOf(statusLog', r) = ArgsOf(statusLog, r)]_vars

\* After cancel() no further delivery is parsed: a drain hands on events
\* only from the batch it was handing on when cancel() was called.
C34_NoDeliveryAfterCancel ==
  [][\A r \in Readers, d \in Drains :
       (rd[r].created /\ rd[r].isCancelled /\ rd'[r].dr[d].pc = "yield")
       => /\ rd[r].dr[d].pc = "yield"
          /\ rd'[r].dr[d].batch \in {rd[r].dr[d].batch, Tail(rd[r].dr[d].batch)}]_vars

----------------------------------------------------------------------------
(* C35 (temporal).  A reconnect timer that was armed for a session which  *)
(* has been stopped since opens no WebSocket when it fires: no socket is  *)
(* created and the websocket field keeps its value, also when a new       *)
(* session has been started in the meantime.                              *)

\* The i-th pending reconnect timer was armed for a session that stopSession
\* or cancelSession has ended.
Stale(i) ==
  /\ i \in 1..Len(svc.reconnects)
  /\ svc.reconnects[i].session \in stops.ended

\* After a stop and without a new session the stale timer does nothing.
C35_StaleTimerIdleWithoutSession ==
  [][\A i \in 1..MaxSockets :
       (Stale(i) /\ svc.sessionId = 0 /\ ReconnectFires(i))
       => /\ svc'.sock = svc.sock
          /\ svc'.websocket = svc.websocket]_vars

C35_StaleTimerOpensNothing ==
  [][\A i \in 1..MaxSockets :
       (Stale(i) /\ ReconnectFires(i))
       => /\ \A k \in Sockets : svc'.sock[k].readyState = svc.sock[k].readyState
          /\ svc'.websocket = svc.websocket]_vars

----------------------------------------------------------------------------
(* C36 (temporal).  The connection timer of a connectWebSocket call       *)
(* aborts only the attempt of that call: when it fires it closes no       *)
(* socket but its own, and when its own attempt has already opened or     *)
(* failed it closes no socket at all.                                     *)

\* The timer of socket k fires after the attempt of socket k is over.
FiresLate(k) == ConnectTimeout(k) /\ svc.sock[k].readyState # "CONNECTING"

\* A timer that fires while nothing is connecting does nothing.
C36_LateTimerIdleWhenNothingConnects ==
  [][\A k \in Sockets :
       (FiresLate(k) /\ ~svc.isConnecting)
       => \A j \in Sockets : svc'.sock[j].readyState = svc.sock[j].readyState]_vars

C36_TimeoutAbortsOwnAttemptOnly ==
  [][\A k \in Sockets :
       ConnectTimeout(k)
       => \A j \in Sockets :
            (j # k \/ svc.sock[k].readyState # "CONNECTING")
            => svc'.sock[j].readyState = svc.sock[j].readyState]_vars

----------------------------------------------------------------------------
(* C37 (temporal).  When the service is not connected and neither a       *)
(* connection attempt nor a reconnect is pending, a startSession call is  *)
(* accepted (it goes on to its handshake) and not rejected with           *)
(* 'Connection already exists'.                                           *)

\* No socket is connecting, open or closing, no startSession call is under
\* way and no reconnect timer is armed.
Disconnected(s) ==
  /\ \A k \in Sockets : s.sock[k].readyState \in {"none", "CLOSED"}
  /\ \A c \in StartCalls : starts[c].pc \notin {"handshake", "connect"}
  /\ s.reconnects = <<>>

\* A service whose fields were cleared, or never set, accepts the call.
C37_AcceptedAfterStop ==
  [][\A c \in StartCalls :
       (Disconnected(svc) /\ svc.websocket = 0 /\ StartSessionCall(c))
       => starts'[c].pc = "handshake"]_vars

\* The case of the reconnect attempts that ran out.
C37_AcceptedAfterExhaustion ==
  [][\A c \in StartCalls :
       (Disconnected(svc) /\ svc.reconnectAttempts = MaxReconnectAttempts
          /\ StartSessionCall(c))
       => starts'[c].pc = "handshake"]_vars

C37_AcceptedWhenDisconnected ==
  [][\A c \in StartCalls :
       (Disconnected(svc) /\ StartSessionCall(c)) => starts'[c].pc = "handshake"]_vars

----------------------------------------------------------------------------
(* C38 (temporal).  When the body ends while the buffer of the reader     *)
(* holds text that is not blank, that text is handed on as an event       *)
(* before the complete event, and a drain that has ended normally has     *)
(* the text of every line received in its aggregate.                      *)

\* read() of drain d of reader r resolves with done.
BodyEnds(r, d) ==
  /\ ReadResolve(r, d)
  /\ ~rd[r].dr[d].eof /\ rd'[r].dr[d].eof

\* A body whose text ends with its delimiter leaves nothing behind.
C38_NothingLeftAfterDelimiter ==
  \A r \in Readers :
     (rd[r].created /\ bodyPos[r] > 0
        /\ LET last == script[r].dl[bodyPos[r]]
           IN Len(last) >= 2 /\ SubSeq(last, Len(last) - 1, Len(last)) = <<NL, NL>>)
     => rd[r].buffer = <<>>

C38_LeftoverIsEmitted ==
  [][\A r \in Readers, d \in Drains :
       (BodyEnds(r, d) /\ Trim(rd[r].buffer) # <<>>)
       => /\ Len(rd'[r].dr[d].batch) = 2
          /\ rd'[r].dr[d].batch[1] = ParseSSELine(Trim(rd[r].buffer))
          /\ rd'[r].dr[d].batch[2] = CompleteEvent]_vars

----------------------------------------------------------------------------
(* C39 (safety and temporal).  fetchModels keeps at most one fetch in     *)
(* flight for a cache key; a call made while the fetch of its key is in   *)
(* flight issues no request and gets the result of that fetch; and the    *)
(* entry of a key in activeFetchPromises is removed when its fetch has    *)
(* settled, by success or by failure.                                     *)

FetchesInFlight(k) ==
  {p \in FetchCalls : models.promise[p].state = "pending" /\ KeyOf(models, p) = k}

C39_OneFetchPerKey == \A k \in CacheKeys : Cardinality(FetchesInFlight(k)) <= 1

C39_JoinIssuesNoRequest ==
  [][\A c \in FetchCalls, provider \in Providers, dynamic, forceRefresh \in BOOLEAN :
       (FetchModelsCall(c, provider, dynamic, forceRefresh)
          /\ (forceRefresh \/ models.modelsCache[CacheKey(provider, dynamic)] # "fresh")
          /\ FetchesInFlight(CacheKey(provider, dynamic)) # {})
       => /\ models'.requests = models.requests
          /\ models'.call[c].promise \in FetchesInFlight(CacheKey(provider, dynamic))]_vars

C39_JoinedGetsSameResult ==
  \A c \in FetchCalls :
     (models.call[c].via = "join" /\ models.call[c].pc \in {"returned", "threw"})
     => LET p == models.call[c].promise
        IN /\ models.call[c].result = models.promise[p].value
           /\ models.call[c].result = models.call[p].result
           /\ models.call[c].pc = models.call[p].pc

C39_EntryRemovedWhenSettled ==
  \A k \in CacheKeys :
     models.activeFetchPromises[k] # 0
     => models.promise[models.activeFetchPromises[k]].state = "pending"

C39_SingleFlight ==
  /\ [](C39_OneFetchPerKey /\ C39_JoinedGetsSameResult /\ C39_EntryRemovedWhenSettled)
  /\ C39_JoinIssuesNoRequest

----------------------------------------------------------------------------
(* C40 (temporal).  A failed token refresh leads to finitely many         *)
(* requests: when the refresh fails that the interceptor attempted for a  *)
(* logout request which itself was made because a refresh had failed, no  *)
(* further request is made, so that logout, 401, refresh, logout does not *)
(* go round.                                                              *)

\* The refresh for request q fails, and q is a logout that a failed refresh
\* caused.
LogoutFailsAgain(q) ==
  /\ RefreshAnswer(q, FALSE)
  /\ auth.req[q].url = "logout" /\ auth.req[q].by # "caller"

\* A request is sent at most twice: the interceptor handles a 401 on a
\* request that carries the _retry mark no more.
C40_RetriedOnce ==
  [][\A q \in 1..MaxRequests, status \in AuthStatuses :
       (Answer(q, status) /\ auth.req[q].retry) => auth'.req[q].pc \in {"resolved", "rejected"}]_vars

\* A logout request that fails without an answer makes no request.
C40_LogoutErrorEndsThere ==
  [][\A q \in 1..MaxRequests :
       (Answer(q, NoResponse) /\ auth.req[q].url = "logout") => Len(auth'.req) = Len(auth.req)]_vars

C40_NoLogoutCycle ==
  [][\A q \in 1..MaxRequests : LogoutFailsAgain(q) => Len(auth'.req) = Len(auth.req)]_vars

====
